---- MODULE Spec2Model ----
\* WorkSync MCP server (src/server.py): the document store (_load_work_index,
\* _save_work_index), the debounced regeneration scheduler (_queue_sync, the
\* threading.Timer it arms, _run_sync) and the tool handlers that use them.
\*
\* Tool handlers run concurrently (spec section 5: "a bounded pool of concurrent
\* request handlers ... true parallelism"); every statement of a handler that
\* reads or writes shared state (the file system, _mtime_cache, _sync_timers,
\* _lock) is one step, so that every interleaving the code allows is explored.
\* Time is discrete: one Tick is one unit of time.
EXTENDS Integers, Sequences, FiniteSets, TLC

\* ---------------------------------------------------------------- bounds
MaxCalls == 2        \* tool calls started in one behaviour
MaxMinute == 1       \* minutes of wall-clock time the dashboards can show
MaxExternal == 2     \* writes to a document made outside the store

\* ------------------------------------------------------- program constants
SYNC_DEBOUNCE_SEC == 2        \* the debounce interval, in units of time

Handlers == {"h1", "h2"}      \* concurrent request handlers
Projects == {"pA", "pB"}      \* project names
ItemIds == {"x", "y"}         \* backlog ids the calls use
Timers == 1 .. MaxCalls       \* threading.Timer objects (one per _queue_sync)
NoTimer == 0
NoHolder == "free"

\* ------------------------------------------------------------------ paths
CONFIG_PATH == <<"cfg", "">>
_yaml_path(p) == <<"wi", p>>
TmpPath(h) == <<"tmp", h>>
Paths == {CONFIG_PATH} \cup {_yaml_path(p) : p \in Projects} \cup {TmpPath(h) : h \in Handlers}

\* ------------------------------------------- documents as ordered mappings
\* A mapping is a sequence of <<key, value>> pairs in insertion order (a Python
\* dict); every value is a sequence.
HasKey(d, k) == \E i \in 1 .. Len(d) : d[i][1] = k
Get(d, k) == IF HasKey(d, k) THEN (CHOOSE pr \in {d[i] : i \in 1 .. Len(d)} : pr[1] = k)[2] ELSE <<>>
Put(d, k, v) ==
    IF HasKey(d, k) THEN [i \in 1 .. Len(d) |-> IF d[i][1] = k THEN <<k, v>> ELSE d[i]]
    ELSE Append(d, <<k, v>>)
SetDefault(d, k) == IF HasKey(d, k) THEN d ELSE Append(d, <<k, <<>>>>)
Keys(d) == {d[i][1] : i \in 1 .. Len(d)}
RECURSIVE DelKey(_, _)
DelKey(d, k) ==
    IF d = <<>> THEN <<>>
    ELSE IF Head(d)[1] = k THEN DelKey(Tail(d), k)
    ELSE <<Head(d)>> \o DelKey(Tail(d), k)
EmptyData == <<>>
Max(S) == CHOOSE x \in S : \A y \in S : y <= x

\* ------------------------------------------------------------------ files
\* body: hdr = the file starts with YAML_HEADER; text = the YAML text after it,
\* a sequence of lines: <<"key", k>> opens the top-level key k, <<"item", v>>
\* is one element of the sequence under the key opened last. partial names the
\* writer that created or truncated the file and has not finished writing it.
EmptyBody == [hdr |-> FALSE, text |-> <<>>]
Absent == [exists |-> FALSE, body |-> EmptyBody, mtime |-> 0, partial |-> "no"]
File(b, m, w) == [exists |-> TRUE, body |-> b, mtime |-> m, partial |-> w]

\* yaml.dump(data, default_flow_style=False, sort_keys=False): the keys in
\* insertion order, under each key its elements in order
RECURSIVE yaml_dump_reversed(_)
yaml_dump_reversed(data) ==
    IF data = <<>> THEN <<>>
    ELSE yaml_dump_reversed(Tail(data)) \o << <<"key", Head(data)[1]>> >>
         \o [i \in 1 .. Len(Head(data)[2]) |-> <<"item", Head(data)[2][i]>>]
RECURSIVE yaml_dump(_)
yaml_dump(data) ==
    IF data = <<>> THEN <<>>
    ELSE << <<"key", Head(data)[1]>> >>
         \o [i \in 1 .. Len(Head(data)[2]) |-> <<"item", Head(data)[2][i]>>]
         \o yaml_dump(Tail(data))
\* yaml.safe_load(f): the mapping the lines build; None for a text without
\* content. A text that starts with an element line is a top-level list, held
\* as the one pair <<TopLevelList, elements>>; it is not a mapping.
TopLevelList == "-"
RECURSIVE yaml_safe_load(_)
yaml_safe_load(text) ==
    IF text = <<>> THEN <<>>
    ELSE LET line == text[Len(text)]
             before == yaml_safe_load(SubSeq(text, 1, Len(text) - 1))
         IN IF line[1] = "key" THEN Append(before, <<line[2], <<>>>>)
            ELSE IF before = <<>> THEN << <<TopLevelList, <<line[2]>>>> >>
            ELSE [before EXCEPT ![Len(before)] = <<@[1], Append(@[2], line[2])>>]
\* the parser accepts the text: a key line inside a top-level list is a
\* yaml.YAMLError
WellFormed(text) ==
    (text # <<>> /\ text[1][1] = "item") => \A i \in 1 .. Len(text) : text[i][1] = "item"
\* the loaded value is a dict (has .get and .setdefault)
IsMapping(d) == \A i \in 1 .. Len(d) : d[i][1] # TopLevelList

\* YAML_HEADER + yaml.dump(data, ...): the text of a document
Dump(data) == [hdr |-> TRUE, text |-> yaml_dump(data)]
\* yaml.dump(config, ...): the text of config.yaml
DumpConfig(config) == [hdr |-> FALSE, text |-> yaml_dump(config)]
ParseWithDefaults(body) ==
    IF body.text = <<>> THEN << <<"sprints", <<>>>>, <<"backlog", <<>>>>, <<"history", <<>>>> >>
    ELSE yaml_safe_load(body.text)
\* yaml.safe_load(f) or {}: the header is a comment; an empty file gives {}
Parse(body) == yaml_safe_load(body.text)

InitDoc == << <<"sprints", <<>>>>, <<"backlog", <<>>>>, <<"history", <<>>>> >>
\* the document written by a human outside the store
ExternalDoc == << <<"backlog", <<[id |-> "ext", summary |-> "s", status |-> "todo"]>>>> >>
BootstrapDoc(name) ==
    << <<"sprints", <<>>>>, <<"backlog", <<>>>>,
       <<"history", <<[summary |-> <<"Registered", name>>, related_sprints |-> "None"]>>>> >>

\* documents with a sprint, a story, a backlog item and a history entry, the
\* second with its top-level keys in another order
SampleDoc ==
    << <<"sprints", <<[id |-> "sp1", title |-> "t", status |-> "planned",
                       stories |-> <<[id |-> "ST1", status |-> "planned", notes |-> "None"]>>]>>>>,
       <<"backlog", <<[id |-> "x", summary |-> "s", status |-> "todo"]>>>>,
       <<"history", <<[summary |-> <<"Registered", "pA">>, related_sprints |-> "None"]>>>> >>
ReorderedDoc == << SampleDoc[3], SampleDoc[1], SampleDoc[2] >>
SampleDocs == {InitDoc, SampleDoc, ReorderedDoc}

VARIABLES
    fs,            \* path -> file
    dirs,          \* project directories that exist
    _mtime_cache,  \* path -> cached st_mtime, or -1 when the key is absent
    _lock,         \* the handler holding _lock, or NoHolder
    _sync_timers,  \* project -> Timer, or NoTimer when the key is absent
    timer,         \* Timer -> [proj, st, rem]; st is none, created, armed, running or dead
    lastRun,       \* how the last ended _run_sync ended: none, synced or failed
    vault,         \* the derived artifacts: entity files, dashboards' generation minutes
    proc,          \* the running sync.py processes: what each has read
    AUTO_SYNC,     \* WORKSYNC_AUTO_SYNC
    frame,         \* handler -> its locals: pc, call, data, current_mtime, path, content, on_disk, timer, result
    calls, externals,            \* counters behind the bounds
    touched, alarm, raced, extEdited, readPartial, succeeded, reset,  \* history of the store
    age, bursts, regens, owed                        \* history of the scheduler

vars == <<fs, dirs, _mtime_cache, _lock, _sync_timers, timer, lastRun, vault, proc, AUTO_SYNC,
          frame,
          calls, externals,
          touched, alarm, raced, extEdited, readPartial, succeeded, reset,
          age, bursts, regens, owed>>

storeVars == <<fs, dirs, _mtime_cache, _lock>>
schedVars == <<_sync_timers, timer, lastRun>>
ghostStore == <<touched, alarm, raced, extEdited, readPartial, succeeded, reset>>
ghostSched == <<age, bursts, regens, owed>>

\* ------------------------------------------------------------- tool calls
\* A call is a record of the tool's arguments. None stands for an omitted
\* optional argument. Of an entity's free-text fields one is kept (a backlog
\* item's summary, a sprint's title, a story's notes): theme, goal, themes and
\* related_sprints of an update are handled by the code exactly like it.
None == "None"
NoCall == [tool |-> "none", project |-> "pA", id |-> "x", status |-> "todo", del |-> FALSE]
NoResult == [kind |-> "none", where |-> "", id |-> ""]
\* {"created": ...}, {"updated": ...}, {"removed": ...}: the entity, named by its id
Ok(id) == [kind |-> "ok", where |-> "", id |-> id]
\* {"error": message}: the kind of error and the name the message carries
Err(where, name) == [kind |-> "error", where |-> where, id |-> name]
Error == [kind |-> "error", where |-> "", id |-> ""]
AddCalls ==
    [tool : {"add_backlog"}, project : Projects, id : ItemIds, summary : {"s"},
     status : {"todo"}, del : {FALSE}]
HistoryCalls == [tool : {"history"}, project : Projects, id : {"x"}, status : {"todo"}, del : {FALSE}]

BacklogStatuses == {"todo", "in_progress", "done"}
SprintStatuses == {"planned", "active", "reference", "completed"}
StoryStatuses == {"planned", "in_progress", "done"}

\* status not in (...): the check every create and update makes
AnyStatus(status, valid) == TRUE
StatusOk(status, valid) == status \in valid

\* any(e.get("id") == id for e in seq)
NeverExists(seq, id) == FALSE
IdExists(seq, id) == \E i \in 1 .. Len(seq) : seq[i].id = id

\* next((e for e in seq if e.get("id") == id), None): the position of the
\* first element with the id, 0 for None
FindOrFirst(seq, id) ==
    IF \E i \in 1 .. Len(seq) : seq[i].id = id
    THEN CHOOSE i \in 1 .. Len(seq) : seq[i].id = id /\ \A j \in 1 .. (i - 1) : seq[j].id # id
    ELSE IF seq = <<>> THEN 0 ELSE 1
Find(seq, id) ==
    IF \E i \in 1 .. Len(seq) : seq[i].id = id
    THEN CHOOSE i \in 1 .. Len(seq) : seq[i].id = id /\ \A j \in 1 .. (i - 1) : seq[j].id # id
    ELSE 0

\* if value is not None: entity[field] = value
Overwrite(value, old) == value
Supplied(value, old) == IF value = None THEN old ELSE value

\* seq.remove(seq[i])
RemoveHead(seq, i) == Tail(seq)
RemoveAt(seq, i) == SubSeq(seq, 1, i - 1) \o SubSeq(seq, i + 1, Len(seq))

\* what a tool body hands on: save (and then return result), or return result
Save(d, r) == [ok |-> TRUE, data |-> d, result |-> r]
Refuse(d, r) == [ok |-> FALSE, data |-> d, result |-> r]

\* worksync_add_backlog, lines 365-383, on the loaded mapping
add_backlog(d, c) ==
    IF ~StatusOk(c.status, BacklogStatuses)
    THEN Refuse(d, Err("invalid", c.status))
    ELSE LET d1 == SetDefault(d, "backlog")
             backlog == Get(d1, "backlog")
         IN IF IdExists(backlog, c.id)
            THEN Refuse(d1, Err("conflict", c.id))
            ELSE Save(Put(d1, "backlog",
                          Append(backlog, [id |-> c.id, summary |-> c.summary, status |-> c.status])),
                      Ok(c.id))

\* worksync_update_backlog, lines 413-431
update_backlog(d, c) ==
    LET backlog == Get(d, "backlog")
        i == Find(backlog, c.id)
    IN IF i = 0 THEN Refuse(d, Err("not_found", c.id))
       ELSE IF c.status # None /\ ~StatusOk(c.status, BacklogStatuses)
       THEN Refuse(d, Err("invalid", c.status))
       ELSE Save(Put(d, "backlog",
                     [backlog EXCEPT ![i] = [@ EXCEPT !.status = Supplied(c.status, @),
                                                      !.summary = Supplied(c.summary, @)]]),
                 Ok(c.id))

\* worksync_remove_backlog, lines 453-461
remove_backlog(d, c) ==
    LET backlog == Get(d, "backlog")
        i == Find(backlog, c.id)
    IN IF i = 0 THEN Refuse(d, Err("not_found", c.id))
       ELSE Save(Put(d, "backlog", RemoveAt(backlog, i)), Ok(c.id))

\* worksync_create_sprint, lines 492-513
create_sprint(d, c) ==
    IF ~StatusOk(c.status, SprintStatuses)
    THEN Refuse(d, Err("invalid", c.status))
    ELSE LET d1 == SetDefault(d, "sprints")
             sprints == Get(d1, "sprints")
         IN IF IdExists(sprints, c.id)
            THEN Refuse(d1, Err("conflict", c.id))
            ELSE Save(Put(d1, "sprints",
                          Append(sprints, [id |-> c.id, title |-> c.title, status |-> c.status,
                                           stories |-> <<>>])),
                      Ok(c.id))

\* worksync_update_sprint, lines 543-562
update_sprint(d, c) ==
    LET sprints == Get(d, "sprints")
        i == Find(sprints, c.id)
    IN IF i = 0 THEN Refuse(d, Err("not_found", c.id))
       ELSE IF c.status # None /\ ~StatusOk(c.status, SprintStatuses)
       THEN Refuse(d, Err("invalid", c.status))
       ELSE Save(Put(d, "sprints",
                     [sprints EXCEPT ![i] = [@ EXCEPT !.status = Supplied(c.status, @),
                                                      !.title = Supplied(c.title, @)]]),
                 Ok(c.id))

\* worksync_add_story, lines 590-610
add_story(d, c) ==
    IF ~StatusOk(c.status, StoryStatuses)
    THEN Refuse(d, Err("invalid", c.status))
    ELSE LET sprints == Get(d, "sprints")
             i == Find(sprints, c.sprint_id)
         IN IF i = 0 THEN Refuse(d, Err("not_found", c.sprint_id))
            ELSE IF IdExists(sprints[i].stories, c.story_id)
            THEN Refuse(d, Err("conflict", c.story_id))
            ELSE Save(Put(d, "sprints",
                          [sprints EXCEPT ![i].stories =
                              Append(@, [id |-> c.story_id, status |-> c.status,
                                         notes |-> IF c.notes # "" THEN c.notes ELSE None])]),
                      Ok(c.story_id))

\* worksync_update_story, lines 638-658
update_story(d, c) ==
    LET sprints == Get(d, "sprints")
        i == Find(sprints, c.sprint_id)
    IN IF i = 0 THEN Refuse(d, Err("not_found", c.sprint_id))
       ELSE LET k == Find(sprints[i].stories, c.story_id)
            IN IF k = 0 THEN Refuse(d, Err("not_found", c.story_id))
               ELSE IF c.status # None /\ ~StatusOk(c.status, StoryStatuses)
               THEN Refuse(d, Err("invalid", c.status))
               ELSE Save(Put(d, "sprints",
                             [sprints EXCEPT ![i].stories[k] =
                                 [@ EXCEPT !.status = Supplied(c.status, @),
                                           !.notes = Supplied(c.notes, @)]]),
                         Ok(c.story_id))

\* worksync_done, lines 689-698: the first sprint, in order, that is the one
\* asked for (or any, when none is asked for) and holds the story; 0 for none
LastSprint(sprints, c) ==
    LET holds(i) == IdExists(sprints[i].stories, c.story_id)
    IN IF \E i \in 1 .. Len(sprints) : holds(i)
       THEN CHOOSE i \in 1 .. Len(sprints) : holds(i) /\ \A j \in (i + 1) .. Len(sprints) : ~holds(j)
       ELSE 0
FoundSprint(sprints, c) ==
    LET holds(i) == /\ (c.sprint_id \in {None, ""} \/ sprints[i].id = c.sprint_id)
                    /\ IdExists(sprints[i].stories, c.story_id)
    IN IF \E i \in 1 .. Len(sprints) : holds(i)
       THEN CHOOSE i \in 1 .. Len(sprints) : holds(i) /\ \A j \in 1 .. (i - 1) : ~holds(j)
       ELSE 0

\* lines 709-714: the history entry of a completion
CompletionEntry(story_id, notes, sprint) ==
    [summary |-> <<"Completed", story_id, notes>>, related_sprints |-> <<sprint>>]

\* worksync_done, lines 686-725
done_without_entry(d, c) ==
    LET sprints == Get(d, "sprints")
        i == FoundSprint(sprints, c)
    IN IF i = 0 THEN Refuse(d, Err("not_found", c.story_id))
       ELSE LET k == Find(sprints[i].stories, c.story_id)
            IN Save(Put(d, "sprints", [sprints EXCEPT ![i].stories[k].status = "done"]),
                    Ok(c.story_id))
done_once(d, c) ==
    LET sprints == Get(d, "sprints")
        i == FoundSprint(sprints, c)
    IN IF i = 0 THEN Refuse(d, Err("not_found", c.story_id))
       ELSE LET k == Find(sprints[i].stories, c.story_id)
                d1 == Put(d, "sprints",
                          [sprints EXCEPT ![i].stories[k] =
                              [@ EXCEPT !.status = "done",
                                        !.notes = IF c.notes # "" THEN c.notes ELSE @]])
                d2 == SetDefault(d1, "history")
            IN IF sprints[i].stories[k].status = "done" THEN Save(d2, Ok(c.story_id))
               ELSE Save(Put(d2, "history",
                             Append(Get(d2, "history"), CompletionEntry(c.story_id, c.notes, sprints[i].id))),
                         Ok(c.story_id))
done(d, c) ==
    LET sprints == Get(d, "sprints")
        i == FoundSprint(sprints, c)
    IN IF i = 0 THEN Refuse(d, Err("not_found", c.story_id))
       ELSE LET k == Find(sprints[i].stories, c.story_id)
                d1 == Put(d, "sprints",
                          [sprints EXCEPT ![i].stories[k] =
                              [@ EXCEPT !.status = "done",
                                        !.notes = IF c.notes # "" THEN c.notes ELSE @]])
                d2 == SetDefault(d1, "history")
            IN Save(Put(d2, "history",
                        Append(Get(d2, "history"), CompletionEntry(c.story_id, c.notes, sprints[i].id))),
                    Ok(c.story_id))

\* worksync_history with action "add", lines 754-769
history_add(d, c) ==
    IF c.summary = "" THEN Refuse(d, Err("invalid", "summary"))
    ELSE LET d1 == SetDefault(d, "history")
         IN Save(Put(d1, "history",
                     Append(Get(d1, "history"), [summary |-> <<c.summary>>, related_sprints |-> None])),
                 Ok(""))

\* the body of a mutation tool between its load and its save
ToolBody(d, c) ==
    CASE c.tool = "add_backlog" -> add_backlog(d, c)
      [] c.tool = "update_backlog" -> update_backlog(d, c)
      [] c.tool = "remove_backlog" -> remove_backlog(d, c)
      [] c.tool = "create_sprint" -> create_sprint(d, c)
      [] c.tool = "update_sprint" -> update_sprint(d, c)
      [] c.tool = "add_story" -> add_story(d, c)
      [] c.tool = "update_story" -> update_story(d, c)
      [] c.tool = "done" -> done(d, c)
      [] c.tool = "history_add" -> history_add(d, c)

\* the names config.yaml registers (config.get("projects", {}))
Registered(f) == Keys(Parse(f[CONFIG_PATH].body))

\* ---------------------------------------------------------------- sync.py
\* The vault: one file per sprint, story and backlog item, <<project,
\* directory, id, content>>; of a dashboard the minute of its "Generated:" line.
NoDashboard == -1
Minutes == 0 .. MaxMinute
EmptyVault ==
    [files |-> {}, dashboard |-> [p \in Projects |-> NoDashboard], global |-> NoDashboard]
\* datetime.now(): not before any minute already stamped
LastStamp(v) == Max({v.global} \cup {v.dashboard[p] : p \in Projects})
Nows(v) == {m \in Minutes : m >= LastStamp(v)}

\* what a process has read: main's load_config and project check (lines
\* 561-577), sync_project's directory check (466-469) and load_work_index
\* (sync.py 50-58: yaml.safe_load(f), None for an empty file)
NoProc == [seen |-> "none", data |-> EmptyData]
Seen(f, d, p) ==
    IF ~f[CONFIG_PATH].exists \/ p \notin Registered(f) THEN "unregistered"
    ELSE IF p \notin d THEN "nodir"
    ELSE IF ~f[_yaml_path(p)].exists THEN "nodoc"
    ELSE IF ~WellFormed(f[_yaml_path(p)].body.text) THEN "malformed"
    ELSE "doc"
load_work_index(f, p) == yaml_safe_load(f[_yaml_path(p)].body.text)
Snapshot(f, d, p) ==
    [seen |-> Seen(f, d, p),
     data |-> IF Seen(f, d, p) = "doc" THEN load_work_index(f, p) ELSE EmptyData]
\* sync_project gets past "if not work_index" and writes the project's files
Regenerated(snap) ==
    snap.seen = "doc" /\ snap.data # EmptyData /\ IsMapping(snap.data)
\* an uncaught exception: yaml.YAMLError from safe_load, AttributeError from
\* work_index.get on a list
Crashes(snap) ==
    \/ snap.seen = "malformed"
    \/ snap.seen = "doc" /\ snap.data # EmptyData /\ ~IsMapping(snap.data)
\* main, lines 573-596: sys.exit(1) for a project that is not in the config (or
\* no config); otherwise the process runs to its end, whatever sync_project
\* returned, and exits 0
ExitCode(snap) == IF snap.seen = "unregistered" \/ Crashes(snap) THEN 1 ELSE 0

\* lines 483-513: the files in the order they are written
SprintWrites(p, sprint) ==
    << <<p, "Sprints", sprint.id, sprint>> >>
    \o [k \in 1 .. Len(sprint.stories) |->
          <<p, "Stories", sprint.stories[k].id, [story |-> sprint.stories[k], sprint |-> sprint.id]>>]
RECURSIVE SprintsWrites(_, _)
SprintsWrites(p, sprints) ==
    IF sprints = <<>> THEN <<>>
    ELSE SprintWrites(p, Head(sprints)) \o SprintsWrites(p, Tail(sprints))
Writes(p, work_index) ==
    SprintsWrites(p, Get(work_index, "sprints"))
    \o [k \in 1 .. Len(Get(work_index, "backlog")) |->
          <<p, "Backlog", Get(work_index, "backlog")[k].id, Get(work_index, "backlog")[k]>>]
\* file_path.write_text(content) creates the file or overwrites it
SameFile(f, w) == f[1] = w[1] /\ f[2] = w[2] /\ f[3] = w[3]
WriteFlip(files, ws) ==
    {f \in files : \A i \in 1 .. Len(ws) : ~SameFile(f, ws[i])}
    \cup {ws[i] : i \in {j \in 1 .. Len(ws) : \A f \in files : ~SameFile(f, ws[j])}}
\* the writes ws in order: of two writes of one file the later stays
WriteAll(files, ws) ==
    {f \in files : \A i \in 1 .. Len(ws) : ~SameFile(f, ws[i])}
    \cup {ws[i] : i \in {j \in 1 .. Len(ws) : \A k \in (j + 1) .. Len(ws) : ~SameFile(ws[k], ws[j])}}
\* sync_project, lines 462-538: nothing is removed from the vault
sync_project(v, p, snap, now) ==
    IF ~Regenerated(snap) THEN v
    ELSE [v EXCEPT !.files = WriteAll(@, Writes(p, snap.data)),
                   !.dashboard[p] = now]
\* main for one project: sync_project, then the global dashboard (589-592)
main(v, p, snap, now) ==
    IF ExitCode(snap) # 0 THEN v
    ELSE [sync_project(v, p, snap, now) EXCEPT !.global = now]
\* subprocess.run(..., timeout=...): the process exits, or is killed at the
\* timeout before or after it has written
Outcomes == {"exit", "timeout", "timeout_late"}
VaultAfter(v, p, snap, now, outcome) ==
    IF outcome = "timeout" THEN v ELSE main(v, p, snap, now)
\* returncode == 0 and no TimeoutExpired
RunOk(snap, outcome) == outcome = "exit" /\ ExitCode(snap) = 0

\* the directory a path lies in exists
DirExists(path, ds) == path[1] # "wi" \/ path[2] \in ds

\* tempfile.mkstemp(suffix=".yaml.tmp", dir=...): a fresh name beside the target
MkstempInPlace(h, tgt) == tgt
MkstempPath(h, tgt) == TmpPath(h)

\* the except branch of the commit region: os.unlink(tmp) when it exists
CleanupNothing(f, tmp) == f
Cleanup(f, tmp) == [f EXCEPT ![tmp] = Absent]

\* os.replace(tmp, path)
Replace(f, tmp, path) ==
    IF tmp = path THEN f ELSE [f EXCEPT ![path] = f[tmp], ![tmp] = Absent]

\* threading.Lock: acquire succeeds only when the lock is free
AcquireAlways(l) == TRUE
CanAcquire(l) == l = NoHolder
\* the end of a "with _lock" block, left normally or by an exception
KeepLock(l) == l
Release(l) == NoHolder

\* st_mtime of a file written now: later than every mtime seen so far
Now ==
    1 + Max({fs[path].mtime : path \in Paths} \cup {_mtime_cache[path] : path \in Paths}
            \cup {frame[h].current_mtime : h \in Handlers})

\* the one place a handler waits: "with _lock" (a blocked handler takes no step)
BlockedOnRegen(h) ==
    \/ (frame[h].pc = "c_lock" /\ ~CanAcquire(_lock))
    \/ (frame[h].pc = "ret" /\ frame[h].timer # NoTimer /\ timer[frame[h].timer].st # "dead")
Blocked(h) == frame[h].pc = "c_lock" /\ ~CanAcquire(_lock)

\* ------------------------------------------------------- history variables
LoadPcs == {"load_cmp", "load_read", "load_store"}
\* a handler has replaced or rewritten the file at path and not yet cached its mtime
InCommitWindow(fr, h, path) ==
    \/ (fr[h].pc = "c_cache" /\ fr[h].path = path)
    \/ (fr[h].pc \in {"reg_write", "reg_cache"} /\ _yaml_path(fr[h].call.project) = path)
\* a load of p has read st_mtime and not yet stored it, while a commit of p is
\* between its write and its cache update
OverlapAt(fr, p) ==
    /\ \E h \in Handlers : fr[h].pc \in LoadPcs /\ fr[h].call.project = p
    /\ \E h \in Handlers : InCommitWindow(fr, h, _yaml_path(p))
NoteRace == raced' = [p \in Projects |-> raced[p] \/ OverlapAt(frame', p)]

\* a handler between calls; r is the outcome of its last call
IdleFrame(r) ==
    [pc |-> "idle", call |-> NoCall, data |-> EmptyData, current_mtime |-> 0,
     path |-> CONFIG_PATH, content |-> EmptyBody, on_disk |-> FALSE,
     timer |-> NoTimer, result |-> r]
\* an exception leaves the tool function; where = "save" when it left
\* _save_work_index, "load" when it left _load_work_index
Raised(where) ==
    IdleFrame([kind |-> "raised", where |-> IF where \in {"save", "load"} THEN where ELSE "", id |-> ""])

\* ------------------------------------------------------------------- Init
\* reg: the projects config.yaml registers; doc: the document of each
InitState(reg, doc) ==
    /\ fs = [path \in Paths |->
               IF path = CONFIG_PATH
               THEN File(DumpConfig(IF reg = Projects THEN << <<"pA", <<>>>>, <<"pB", <<>>>> >>
                                    ELSE << <<"pA", <<>>>> >>), 0, "no")
               ELSE IF path[1] = "wi" /\ path[2] \in reg
               THEN File(Dump(doc[path[2]]), 0, "no")
               ELSE Absent]
    /\ dirs = reg
    /\ _mtime_cache = [path \in Paths |-> -1]
    /\ _lock = NoHolder
    /\ _sync_timers = [p \in Projects |-> NoTimer]
    /\ timer = [t \in Timers |-> [proj |-> "pA", st |-> "none", rem |-> 0]]
    /\ lastRun = "none"
    /\ vault = EmptyVault
    /\ proc = [timer |-> [t \in Timers |-> NoProc], handler |-> [h \in Handlers |-> NoProc]]
    /\ AUTO_SYNC \in BOOLEAN
    /\ frame = [h \in Handlers |-> IdleFrame(NoResult)]
    /\ calls = 0
    /\ externals = 0
    /\ touched = [h \in Handlers |-> FALSE]
    /\ alarm = [p \in Projects |-> FALSE]
    /\ raced = [p \in Projects |-> FALSE]
    /\ extEdited = [p \in Projects |-> FALSE]
    /\ readPartial = [h \in Handlers |-> "no"]
    /\ succeeded = [p \in Projects |-> {}]
    /\ reset = [p \in Projects |-> FALSE]
    /\ age = [p \in Projects |-> SYNC_DEBOUNCE_SEC]
    /\ bursts = [p \in Projects |-> 0]
    /\ regens = [p \in Projects |-> 0]
    /\ owed = [p \in Projects |-> FALSE]

Init == \E reg \in {{"pA"}, Projects} : InitState(reg, [p \in Projects |-> InitDoc])

\* ----------------------------------------------------- a tool call begins
\* Handlers are interchangeable slots: a call takes the first idle one.
\* A call begins with the first statement of its tool function.
CanBegin(h) ==
    /\ frame[h].pc = "idle"
    /\ calls < MaxCalls
    /\ h = "h2" => frame["h1"].pc # "idle"
Begin(h, c, fr) ==
    /\ frame' = [frame EXCEPT ![h] = fr]
    /\ calls' = calls + 1
    /\ touched' = [touched EXCEPT ![h] = FALSE]
    /\ readPartial' = [readPartial EXCEPT ![h] = "no"]
    /\ NoteRace
    /\ UNCHANGED <<storeVars, schedVars, AUTO_SYNC, vault, proc, externals,
                   alarm, extEdited, succeeded, reset, ghostSched>>
Called(c) == [IdleFrame(NoResult) EXCEPT !.call = c]

\* _validate_project, lines 140-150, the first statement of every document tool
Validate(h, cs) ==
    /\ CanBegin(h)
    /\ \E c \in cs :
        Begin(h, c,
              IF ~fs[CONFIG_PATH].exists \/ c.project \notin Registered(fs) \/ c.project \notin dirs
              THEN Raised("validate")
              ELSE [Called(c) EXCEPT !.pc = "load_stat"])

\* worksync_status(project), lines 269-280: _load_config(); a project that
\* config.yaml does not register is refused; project_list = [project], whose
\* document is then loaded (the call without a project, which loads every
\* registered project in turn, is not among the calls)
StatusCalls == [tool : {"status"}, project : Projects]
StatusCall(h) ==
    /\ CanBegin(h)
    /\ \E c \in StatusCalls :
        Begin(h, c,
              IF ~fs[CONFIG_PATH].exists THEN Raised("config")
              ELSE IF c.project \notin Registered(fs)
              THEN [Called(c) EXCEPT !.pc = "ret", !.result = Err("not_found", c.project)]
              ELSE [Called(c) EXCEPT !.pc = "load_stat"])

\* _load_work_index raises: FileNotFoundError when the file is missing, the
\* parser's error otherwise. worksync_status (lines 281-285) catches the
\* first and reports it for the project; every other caller lets both pass.
MissingDocument == "work-index.yaml not found"
LoadFails(fr, missing) ==
    IF fr.call.tool = "status" /\ missing
    THEN [fr EXCEPT !.pc = "ret", !.result = Ok(MissingDocument)]
    ELSE Raised("load")

\* _load_work_index, lines 160-164: path.exists(), path.stat().st_mtime
LoadStat(h) ==
    /\ frame[h].pc = "load_stat"
    /\ ~Blocked(h)
    /\ LET path == _yaml_path(frame[h].call.project)
       IN frame' = [frame EXCEPT ![h] =
                      IF ~fs[path].exists THEN LoadFails(@, TRUE)
                      ELSE [@ EXCEPT !.pc = "load_cmp", !.current_mtime = fs[path].mtime]]
    /\ NoteRace
    /\ UNCHANGED <<storeVars, schedVars, AUTO_SYNC, vault, proc, calls, externals,
                   touched, alarm, extEdited, readPartial, succeeded, reset, ghostSched>>

\* lines 165-171: the cached mtime is compared, a difference is logged
ExternalEditDetected(cached_mtime, current_mtime) ==
    cached_mtime # -1 /\ current_mtime # cached_mtime

LoadCmp(h) ==
    /\ frame[h].pc = "load_cmp"
    /\ ~Blocked(h)
    /\ LET p == frame[h].call.project
       IN alarm' = [alarm EXCEPT ![p] =
                      @ \/ ExternalEditDetected(_mtime_cache[_yaml_path(p)], frame[h].current_mtime)]
    /\ frame' = [frame EXCEPT ![h].pc = "load_read"]
    /\ NoteRace
    /\ UNCHANGED <<storeVars, schedVars, AUTO_SYNC, vault, proc, calls, externals,
                   touched, extEdited, readPartial, succeeded, reset, ghostSched>>

\* lines 173-174: open(path), yaml.safe_load(f) or {}
LoadRead(h) ==
    /\ frame[h].pc = "load_read"
    /\ ~Blocked(h)
    /\ LET path == _yaml_path(frame[h].call.project)
       IN /\ frame' = [frame EXCEPT ![h] =
                         IF ~fs[path].exists THEN LoadFails(@, TRUE)
                         ELSE IF ~WellFormed(fs[path].body.text) THEN LoadFails(@, FALSE)
                         ELSE [@ EXCEPT !.pc = "load_store", !.data = Parse(fs[path].body)]]
          /\ readPartial' = [readPartial EXCEPT ![h] = IF fs[path].exists THEN fs[path].partial ELSE "no"]
    /\ NoteRace
    /\ UNCHANGED <<storeVars, schedVars, AUTO_SYNC, vault, proc, calls, externals,
                   touched, alarm, extEdited, succeeded, reset, ghostSched>>

\* worksync_history with action "list": {"history": data.get("history", [])};
\* a result is kept only as far as it tells a success from an error
HistoryResult(d) == Ok("")
\* what worksync_history with action "list" returns (line 752)
history_list(d) == Get(d, "history")
\* worksync_status, lines 287-312: what is reported for a project whose
\* document is d
RECURSIVE in_progress_stories(_)
in_progress_stories(sprints) ==
    IF sprints = <<>> THEN <<>>
    ELSE LET sprint == Head(sprints)
             found == SelectSeq(sprint.stories, LAMBDA story : story.status = "in_progress")
         IN [i \in 1 .. Len(found) |->
               [id |-> found[i].id, status |-> found[i].status, notes |-> found[i].notes,
                sprint |-> sprint.id]]
            \o in_progress_stories(Tail(sprints))
status_blank(d) ==
    [sprints |-> <<>>, in_progress_stories |-> <<>>, in_progress_backlog |-> <<>>,
     stats |-> [total_backlog |-> 0, todo |-> 0, in_progress |-> 0, done |-> 0]]
status(d) ==
    LET sprints == Get(d, "sprints")
        backlog == Get(d, "backlog")
        in_progress_backlog == SelectSeq(backlog, LAMBDA b : b.status = "in_progress")
    IN [sprints |-> SelectSeq(sprints, LAMBDA s : s.status = "active"),
        in_progress_stories |-> in_progress_stories(sprints),
        in_progress_backlog |-> in_progress_backlog,
        stats |-> [total_backlog |-> Len(backlog),
                   todo |-> Len(SelectSeq(backlog, LAMBDA b : b.status = "todo")),
                   in_progress |-> Len(in_progress_backlog),
                   done |-> Len(SelectSeq(backlog, LAMBDA b : b.status = "done"))]]
\* the data a read that has reached its return hands to its caller
Returned(fr) == IF fr.call.tool = "history" THEN history_list(fr.data) ELSE status(fr.data)
\* a read returns after its load: no save, no _queue_sync
ReadQueues(fr, r) == [fr EXCEPT !.pc = "q_cancel", !.result = r]
ReadDone(fr, r) == [fr EXCEPT !.pc = "ret", !.result = r]

\* the tool body between _load_work_index and _save_work_index
\* A value that is not a dict has no .get / .setdefault: the first use of data
\* raises AttributeError. add_backlog, create_sprint, add_story and
\* history(add) return their "invalid" error before they use data.
UsesData(d, c) ==
    \/ c.tool \in {"history", "status"}
    \/ LET r == ToolBody(d, c) IN r.ok \/ r.result.where # "invalid"
AfterLoad(fr) ==
    IF ~IsMapping(fr.data) /\ UsesData(fr.data, fr.call) THEN Raised("tool")
    ELSE IF fr.call.tool = "history"
    THEN ReadDone(fr, HistoryResult(fr.data))
    ELSE IF fr.call.tool = "status"
    THEN ReadDone(fr, Ok(""))
    ELSE LET r == ToolBody(fr.data, fr.call)
         IN IF r.ok
            THEN [fr EXCEPT !.pc = "c_lock", !.data = r.data, !.result = r.result,
                            !.path = _yaml_path(fr.call.project), !.content = Dump(r.data)]
            ELSE [fr EXCEPT !.pc = "ret", !.result = r.result]

\* line 176: _mtime_cache[str(path)] = current_mtime; then the tool body runs
LoadStore(h) ==
    /\ frame[h].pc = "load_store"
    /\ ~Blocked(h)
    /\ _mtime_cache' = [_mtime_cache EXCEPT ![_yaml_path(frame[h].call.project)] = frame[h].current_mtime]
    /\ frame' = [frame EXCEPT ![h] = AfterLoad(@)]
    /\ NoteRace
    /\ UNCHANGED <<fs, dirs, _lock, schedVars, AUTO_SYNC, vault, proc, calls, externals,
                   touched, alarm, extEdited, readPartial, succeeded, reset, ghostSched>>

\* ------------------------------------------------------- the commit region
\* lines 185-206 for a document, 966-978 and 1032-1044 for config.yaml
IsDoc(path) == path[1] = "wi"
Touch(h, f2) == touched' = [touched EXCEPT ![h] = @ \/ f2[frame[h].path] # fs[frame[h].path]]

\* with _lock: tempfile.mkstemp(...). The temporary file is private to the
\* handler, so creating it belongs to the step that takes the lock. mkstemp is
\* outside the try: when it fails the lock is released and nothing is cleaned.
CLock(h) ==
    /\ frame[h].pc = "c_lock"
    /\ ~Blocked(h)
    /\ \E ok \in BOOLEAN :
        IF ok /\ DirExists(frame[h].path, dirs)
        THEN LET f2 == [fs EXCEPT ![MkstempPath(h, frame[h].path)] = File(EmptyBody, Now, "save")]
             IN /\ fs' = f2
                /\ Touch(h, f2)
                /\ frame' = [frame EXCEPT ![h].pc = "c_write"]
                /\ _lock' = h
        ELSE /\ frame' = [frame EXCEPT ![h] = Raised("save")]
             /\ UNCHANGED <<fs, touched, _lock>>
    /\ NoteRace
    /\ UNCHANGED <<dirs, _mtime_cache, schedVars, AUTO_SYNC, vault, proc, calls, externals,
                   alarm, extEdited, readPartial, succeeded, reset, ghostSched>>

\* os.write(fd, content.encode()); os.close(fd); for a document also the
\* re-parse of the temporary file, with open(tmp) as f: yaml.safe_load(f).
\* The write fails (the file stays as created), the re-parse fails (the file
\* is written), or both succeed.
CWrite(h) ==
    /\ frame[h].pc = "c_write"
    /\ ~Blocked(h)
    /\ LET tmp == MkstempPath(h, frame[h].path)
           written == IF fs[tmp].exists
                      THEN [fs EXCEPT ![tmp] = File(frame[h].content, Now, "no")]
                      ELSE fs
       IN \E outcome \in {"ok", "write_failed", "parse_failed"} :
            /\ outcome = "parse_failed" => IsDoc(frame[h].path)
            /\ IF outcome = "write_failed"
               THEN /\ frame' = [frame EXCEPT ![h].pc = "c_except"]
                    /\ UNCHANGED <<fs, touched>>
               ELSE /\ fs' = written
                    /\ Touch(h, written)
                    /\ frame' = [frame EXCEPT ![h].pc =
                                   IF outcome = "ok" /\ (fs[tmp].exists \/ ~IsDoc(frame[h].path))
                                   THEN "c_replace" ELSE "c_except"]
    /\ NoteRace
    /\ UNCHANGED <<dirs, _mtime_cache, _lock, schedVars, AUTO_SYNC, vault, proc, calls, externals,
                   alarm, extEdited, readPartial, succeeded, reset, ghostSched>>

\* what follows a released commit region
AfterCommitQueues(fr, auto) ==
    IF fr.call.tool = "unregister" THEN [fr EXCEPT !.pc = "unreg_rm"]
    ELSE [fr EXCEPT !.pc = "q_cancel"]
AfterCommit(fr, auto) ==
    IF fr.call.tool = "unregister" THEN [fr EXCEPT !.pc = "unreg_rm"]
    ELSE IF auto THEN [fr EXCEPT !.pc = "q_cancel"]
    ELSE [fr EXCEPT !.pc = "ret"]

\* os.replace(tmp, path)
CReplace(h) ==
    /\ frame[h].pc = "c_replace"
    /\ ~Blocked(h)
    /\ LET tmp == MkstempPath(h, frame[h].path)
           path == frame[h].path
       IN \E ok \in BOOLEAN :
            IF ok /\ fs[tmp].exists /\ DirExists(path, dirs)
            THEN LET f2 == Replace(fs, tmp, path)
                 IN /\ fs' = f2
                    /\ Touch(h, f2)
                    /\ owed' = IF IsDoc(path) /\ AUTO_SYNC
                               THEN [owed EXCEPT ![path[2]] = TRUE] ELSE owed
                    /\ IF IsDoc(path)
                       THEN /\ frame' = [frame EXCEPT ![h].pc = "c_cache"]
                            /\ UNCHANGED _lock
                       ELSE /\ frame' = [frame EXCEPT ![h] = AfterCommit(@, AUTO_SYNC)]
                            /\ _lock' = Release(_lock)
            ELSE /\ frame' = [frame EXCEPT ![h].pc = "c_except"]
                 /\ UNCHANGED <<fs, touched, _lock, owed>>
    /\ NoteRace
    /\ UNCHANGED <<dirs, _mtime_cache, schedVars, AUTO_SYNC, vault, proc, calls, externals,
                   alarm, extEdited, readPartial, succeeded, reset, age, bursts, regens>>

\* line 197: _mtime_cache[str(path)] = path.stat().st_mtime
CacheStale(cache, path, mtime) == cache
CacheAfterCommit(cache, path, mtime) == [cache EXCEPT ![path] = mtime]

\* line 197 and the end of the with block: the lock is released
CCache(h) ==
    /\ frame[h].pc = "c_cache"
    /\ ~Blocked(h)
    /\ LET path == frame[h].path
       IN IF fs[path].exists
          THEN /\ _mtime_cache' = CacheAfterCommit(_mtime_cache, path, fs[path].mtime)
               /\ frame' = [frame EXCEPT ![h] = AfterCommit(@, AUTO_SYNC)]
          ELSE /\ frame' = [frame EXCEPT ![h] = Raised("stat")]
               /\ UNCHANGED _mtime_cache
    /\ _lock' = Release(_lock)
    /\ NoteRace
    /\ UNCHANGED <<fs, dirs, schedVars, AUTO_SYNC, vault, proc, calls, externals,
                   touched, alarm, extEdited, readPartial, succeeded, reset, ghostSched>>

\* except Exception: os.unlink(tmp) when it exists; raise
CExcept(h) ==
    /\ frame[h].pc = "c_except"
    /\ ~Blocked(h)
    /\ LET f2 == Cleanup(fs, MkstempPath(h, frame[h].path))
       IN fs' = f2 /\ Touch(h, f2)
    /\ frame' = [frame EXCEPT ![h] = Raised("save")]
    /\ _lock' = Release(_lock)
    /\ NoteRace
    /\ UNCHANGED <<dirs, _mtime_cache, schedVars, AUTO_SYNC, vault, proc, calls, externals,
                   alarm, extEdited, readPartial, succeeded, reset, ghostSched>>

\* ------------------------------------------------------------ _queue_sync
\* the key of _sync_timers a project's timer is kept under
SharedKey(p) == "pA"
TimerKey(p) == p

\* Timer.cancel(): sets the finished event; a timer that has not yet called its
\* function never will, one that is running or has ended is not affected
Dead == [proj |-> "pA", st |-> "dead", rem |-> 0]
Cancel(tm, t) ==
    IF tm[t].st \in {"created", "armed"} THEN [tm EXCEPT ![t] = Dead] ELSE tm

\* lines 215-216: if project in _sync_timers: _sync_timers[project].cancel()
QCancel(h) ==
    /\ frame[h].pc = "q_cancel"
    /\ ~Blocked(h)
    /\ LET k == TimerKey(frame[h].call.project)
       IN timer' = IF _sync_timers[k] # NoTimer THEN Cancel(timer, _sync_timers[k]) ELSE timer
    /\ frame' = [frame EXCEPT ![h].pc = "q_arm"]
    /\ NoteRace
    /\ UNCHANGED <<storeVars, _sync_timers, lastRun, AUTO_SYNC, vault, proc, calls, externals,
                   touched, alarm, extEdited, readPartial, succeeded, reset, ghostSched>>

FreshTimer == CHOOSE t \in Timers : timer[t].st = "none" /\ \A u \in Timers : u < t => timer[u].st # "none"

\* Timer.start(): the timer thread waits interval seconds on the finished event
StartNothing(tm, t) == tm
StartTimer(tm, t) ==
    IF tm[t].st = "created" THEN [tm EXCEPT ![t].st = "armed", ![t].rem = SYNC_DEBOUNCE_SEC] ELSE tm

\* lines 217-220: timer = threading.Timer(SYNC_DEBOUNCE_SEC, _run_sync, [project]);
\* _sync_timers[project] = timer; timer.start(). The project is notified now: a
\* notification that comes SYNC_DEBOUNCE_SEC or more after the previous one opens a new burst.
QArm(h) ==
    /\ frame[h].pc = "q_arm"
    /\ ~Blocked(h)
    /\ LET t == FreshTimer
           p == frame[h].call.project
           created == [timer EXCEPT ![t] = [proj |-> p, st |-> "created", rem |-> SYNC_DEBOUNCE_SEC]]
       IN /\ timer' = StartTimer(created, t)
          /\ _sync_timers' = [_sync_timers EXCEPT ![TimerKey(p)] = t]
          /\ frame' = [frame EXCEPT ![h].pc = "ret", ![h].timer = t]
          /\ bursts' = [bursts EXCEPT ![p] = IF age[p] >= SYNC_DEBOUNCE_SEC THEN @ + 1 ELSE @]
          /\ age' = [age EXCEPT ![p] = 0]
    /\ NoteRace
    /\ UNCHANGED <<storeVars, lastRun, AUTO_SYNC, vault, proc, calls, externals,
                   touched, alarm, extEdited, readPartial, succeeded, reset, regens, owed>>

\* the tool function returns its result
Return(h) ==
    /\ frame[h].pc = "ret"
    /\ ~Blocked(h)
    /\ succeeded' = IF frame[h].result.kind = "ok" /\ frame[h].call.tool = "add_backlog"
                    THEN [succeeded EXCEPT ![frame[h].call.project] = @ \cup {frame[h].result.id}]
                    ELSE succeeded
    /\ frame' = [frame EXCEPT ![h] = IdleFrame(frame[h].result)]
    /\ NoteRace
    /\ UNCHANGED <<storeVars, schedVars, AUTO_SYNC, vault, proc, calls, externals,
                   touched, alarm, extEdited, readPartial, reset, ghostSched>>

\* ------------------------------------------------------- the timer threads
\* Timer.run(): after the wait, if the finished event is not set,
\* _run_sync(project), which starts sync.py; the process reads the config and
\* the project's document. (No step of a handler lies between the timer's
\* wake-up and that read: a step that changes a file does not look at the
\* timer, so it can be taken as coming before the wake-up, and one that looks
\* at the timer changes no file, so it can be taken as coming after the read.)
Fire(t) ==
    /\ timer[t].st = "armed"
    /\ timer[t].rem = 0
    /\ timer' = [timer EXCEPT ![t].st = "running"]
    /\ proc' = [proc EXCEPT !.timer[t] = Snapshot(fs, dirs, timer[t].proj)]
    /\ regens' = [regens EXCEPT ![timer[t].proj] = @ + 1]
    /\ owed' = [owed EXCEPT ![timer[t].proj] = FALSE]
    /\ UNCHANGED <<storeVars, _sync_timers, lastRun, AUTO_SYNC, vault, frame, calls, externals,
                   ghostStore, age, bursts>>

\* what a run of sync.py writes: files under vault_path only (sync.py 462-538, 592)
SyncDamages(f, p, outcome) ==
    IF outcome = "failed" THEN [f EXCEPT ![_yaml_path(p)] = Absent] ELSE f
SyncRewrites(f, p, outcome) ==
    IF outcome = "synced" /\ f[_yaml_path(p)].exists
    THEN [f EXCEPT ![_yaml_path(p)].mtime = @ + 1] ELSE f
SyncWrites(f, p, outcome) == f

\* _run_sync, lines 223-242: the process writes the vault and exits 0 or
\* non-zero, or times out (a missing sync.py counts as a run that does
\* nothing); every outcome but exit 0 is "failed". Each is only logged.
RunSync(t) ==
    /\ timer[t].st = "running"
    /\ \E outcome \in Outcomes : \E now \in Nows(vault) :
        LET report == IF RunOk(proc.timer[t], outcome) THEN "synced" ELSE "failed"
        IN /\ timer' = [timer EXCEPT ![t] = Dead]
           /\ lastRun' = report
           /\ vault' = VaultAfter(vault, timer[t].proj, proc.timer[t], now, outcome)
           /\ fs' = SyncWrites(fs, timer[t].proj, report)
    /\ proc' = [proc EXCEPT !.timer[t] = NoProc]
    /\ UNCHANGED <<dirs, _mtime_cache, _lock, _sync_timers, AUTO_SYNC, frame, calls,
                   externals, ghostStore, ghostSched>>

\* worksync_sync(project), lines 786-792: _validate_project, then the command
SyncCalls == [tool : {"sync"}, project : Projects]
SyncCall(h) ==
    /\ CanBegin(h)
    /\ \E c \in SyncCalls :
        Begin(h, c,
              IF ~fs[CONFIG_PATH].exists \/ c.project \notin Registered(fs) \/ c.project \notin dirs
              THEN Raised("validate")
              ELSE [Called(c) EXCEPT !.pc = "sync_load"])
\* the process worksync_sync started reads the config and the document
HSyncLoad(h) ==
    /\ frame[h].pc = "sync_load"
    /\ proc' = [proc EXCEPT !.handler[h] = Snapshot(fs, dirs, frame[h].call.project)]
    /\ frame' = [frame EXCEPT ![h].pc = "sync_run"]
    /\ NoteRace
    /\ UNCHANGED <<storeVars, schedVars, vault, AUTO_SYNC, calls, externals,
                   touched, alarm, extEdited, readPartial, succeeded, reset, ghostSched>>
\* lines 794-809: subprocess.run(cmd, ..., timeout=60); {"status": "success"}
\* for returncode 0, {"status": "error"} for any other and for a timeout
SyncResultSwallowed(snap, outcome, p) == Ok(p)
SyncResult(snap, outcome, p) ==
    IF RunOk(snap, outcome) THEN Ok(p)
    ELSE IF outcome = "exit" THEN Err("sync", p)
    ELSE Err("timeout", p)
HSyncRun(h) ==
    /\ frame[h].pc = "sync_run"
    /\ \E outcome \in Outcomes : \E now \in Nows(vault) :
        /\ vault' = VaultAfter(vault, frame[h].call.project, proc.handler[h], now, outcome)
        /\ fs' = SyncWrites(fs, frame[h].call.project,
                            IF RunOk(proc.handler[h], outcome) THEN "synced" ELSE "failed")
        /\ frame' = [frame EXCEPT ![h].pc = "ret",
                                   ![h].result = SyncResult(proc.handler[h], outcome, frame[h].call.project)]
    /\ proc' = [proc EXCEPT !.handler[h] = NoProc]
    /\ NoteRace
    /\ UNCHANGED <<dirs, _mtime_cache, _lock, schedVars, AUTO_SYNC, calls, externals,
                   touched, alarm, extEdited, readPartial, succeeded, reset, ghostSched>>

\* one unit of time passes; a timer whose interval has elapsed fires first
Tick ==
    /\ \A t \in Timers : timer[t].st = "armed" => timer[t].rem > 0
    /\ (\E t \in Timers : timer[t].st = "armed") \/ (\E p \in Projects : age[p] < SYNC_DEBOUNCE_SEC)
    /\ timer' = [t \in Timers |->
                   IF timer[t].st = "armed" THEN [timer[t] EXCEPT !.rem = @ - 1] ELSE timer[t]]
    /\ age' = [p \in Projects |-> IF age[p] < SYNC_DEBOUNCE_SEC THEN age[p] + 1 ELSE SYNC_DEBOUNCE_SEC]
    /\ UNCHANGED <<storeVars, _sync_timers, lastRun, AUTO_SYNC, vault, proc, frame, calls, externals,
                   ghostStore, bursts, regens, owed>>

\* ------------------------------------------------------ outside the store
\* a human rewrites a document on disk
ExternalEdit(p) ==
    /\ externals < MaxExternal
    /\ fs[_yaml_path(p)].exists
    /\ fs' = [fs EXCEPT ![_yaml_path(p)] = File([hdr |-> FALSE, text |-> yaml_dump(ExternalDoc)], Now, "no")]
    /\ externals' = externals + 1
    /\ extEdited' = [extEdited EXCEPT ![p] = TRUE]
    /\ UNCHANGED <<dirs, _mtime_cache, _lock, schedVars, AUTO_SYNC, vault, proc, frame, calls,
                   touched, alarm, raced, readPartial, succeeded, reset, ghostSched>>

\* a document on disk is overwritten with text that is no document: a
\* top-level list, or text the parser rejects
ListText == << <<"item", "a">> >>
MalformedText == << <<"item", "a">>, <<"key", "backlog">> >>
ExternalCorrupt(p) ==
    /\ externals < MaxExternal
    /\ fs[_yaml_path(p)].exists
    /\ \E text \in {ListText, MalformedText} :
         fs' = [fs EXCEPT ![_yaml_path(p)] = File([hdr |-> FALSE, text |-> text], Now, "no")]
    /\ externals' = externals + 1
    /\ UNCHANGED <<dirs, _mtime_cache, _lock, schedVars, AUTO_SYNC, vault, proc, frame, calls,
                   touched, alarm, raced, extEdited, readPartial, succeeded, reset, ghostSched>>

\* a human empties a document on disk
ExternalTruncate(p) ==
    /\ externals < MaxExternal
    /\ fs[_yaml_path(p)].exists
    /\ fs' = [fs EXCEPT ![_yaml_path(p)] = File(EmptyBody, Now, "no")]
    /\ externals' = externals + 1
    /\ UNCHANGED <<dirs, _mtime_cache, _lock, schedVars, AUTO_SYNC, vault, proc, frame, calls,
                   touched, alarm, raced, extEdited, readPartial, succeeded, reset, ghostSched>>

\* a human deletes a document on disk
ExternalRemove(p) ==
    /\ externals < MaxExternal
    /\ fs[_yaml_path(p)].exists
    /\ fs' = [fs EXCEPT ![_yaml_path(p)] = Absent]
    /\ externals' = externals + 1
    /\ UNCHANGED <<dirs, _mtime_cache, _lock, schedVars, AUTO_SYNC, vault, proc, frame, calls,
                   touched, alarm, raced, extEdited, readPartial, succeeded, reset, ghostSched>>

\* ------------------------------------------- worksync_register_project
\* lines 896-900: config = _load_config(); the name must be new
RegCfg(h) ==
    /\ CanBegin(h)
    /\ \E c \in [tool : {"register"}, project : Projects, id : {"x"}, status : {"todo"}, del : {FALSE}] :
        LET config == Parse(fs[CONFIG_PATH].body)
        IN Begin(h, c,
                 IF ~fs[CONFIG_PATH].exists THEN Raised("config")
                 ELSE IF HasKey(config, c.project)
                 THEN [Called(c) EXCEPT !.pc = "ret",
                                        !.result = Error]
                 ELSE [Called(c) EXCEPT !.pc = "reg_mkdir", !.data = Put(config, c.project, <<>>)])

\* lines 925-950: project_dir.mkdir(parents=True, exist_ok=True) and its
\* subdirectories; open(work_index_path, "w") creates or truncates the document
RegOpen(h) ==
    /\ frame[h].pc = "reg_mkdir"
    /\ ~Blocked(h)
    /\ LET name == frame[h].call.project
       IN /\ dirs' = dirs \cup {name}
          /\ fs' = [fs EXCEPT ![_yaml_path(name)] = File(EmptyBody, Now, "register")]
          /\ reset' = [reset EXCEPT ![name] = TRUE]
          /\ frame' = [frame EXCEPT ![h].pc = "reg_write"]
    /\ NoteRace
    /\ UNCHANGED <<_mtime_cache, _lock, schedVars, AUTO_SYNC, vault, proc, calls, externals,
                   touched, alarm, extEdited, readPartial, succeeded, ghostSched>>

\* line 951: f.write(content), and the file is closed
RegWrite(h) ==
    /\ frame[h].pc = "reg_write"
    /\ ~Blocked(h)
    /\ LET name == frame[h].call.project
           path == _yaml_path(name)
       IN fs' = IF fs[path].exists
                THEN [fs EXCEPT ![path] = File(Dump(BootstrapDoc(name)), Now, "no")]
                ELSE fs
    /\ frame' = [frame EXCEPT ![h].pc = "reg_cache"]
    /\ NoteRace
    /\ UNCHANGED <<dirs, _mtime_cache, _lock, schedVars, AUTO_SYNC, vault, proc, calls, externals,
                   touched, alarm, extEdited, readPartial, succeeded, reset, ghostSched>>

\* line 952: _mtime_cache[...] = work_index_path.stat().st_mtime, outside _lock;
\* lines 955-965: the new config.yaml text
RegCache(h) ==
    /\ frame[h].pc = "reg_cache"
    /\ ~Blocked(h)
    /\ LET path == _yaml_path(frame[h].call.project)
       IN IF fs[path].exists
          THEN /\ _mtime_cache' = [_mtime_cache EXCEPT ![path] = fs[path].mtime]
               /\ frame' = [frame EXCEPT ![h].pc = "c_lock", ![h].path = CONFIG_PATH,
                                         ![h].content = DumpConfig(frame[h].data),
                                         ![h].result = Ok("")]
          ELSE /\ frame' = [frame EXCEPT ![h] = Raised("register")]
               /\ UNCHANGED _mtime_cache
    /\ NoteRace
    /\ UNCHANGED <<fs, dirs, _lock, schedVars, AUTO_SYNC, vault, proc, calls, externals,
                   touched, alarm, extEdited, readPartial, succeeded, reset, ghostSched>>

\* ----------------------------------------- worksync_unregister_project
\* lines 1013-1031: in_config, on_disk, in_vault; the vault is outside this
\* model's state, so in_vault is either value
UnregCfg(h) ==
    /\ CanBegin(h)
    /\ \E c \in [tool : {"unregister"}, project : Projects, id : {"x"}, status : {"todo"}, del : BOOLEAN] :
        LET config == Parse(fs[CONFIG_PATH].body)
            in_config == HasKey(config, c.project)
            on_disk == c.project \in dirs
        IN \E in_vault \in BOOLEAN :
             Begin(h, c,
                   IF ~fs[CONFIG_PATH].exists THEN Raised("config")
                   ELSE IF ~in_config /\ ~on_disk /\ ~in_vault
                   THEN [Called(c) EXCEPT !.pc = "ret",
                                          !.result = Error]
                   ELSE IF in_config
                   THEN [Called(c) EXCEPT !.pc = "c_lock", !.on_disk = on_disk, !.path = CONFIG_PATH,
                                          !.data = DelKey(config, c.project),
                                          !.content = DumpConfig(DelKey(config, c.project)),
                                          !.result = Ok("")]
                   ELSE [Called(c) EXCEPT !.pc = "unreg_rm", !.on_disk = on_disk,
                                          !.result = Ok("")])

\* shutil.rmtree(project_dir): the document and every temporary file beside it
Rmtree(f, name) ==
    [path \in Paths |->
       IF path = _yaml_path(name) THEN Absent
       ELSE IF \E h \in Handlers : path = TmpPath(h) /\ frame[h].path = _yaml_path(name) THEN Absent
       ELSE f[path]]

\* lines 1050-1066: if delete_data and on_disk: shutil.rmtree(project_dir)
UnregRm(h) ==
    /\ frame[h].pc = "unreg_rm"
    /\ ~Blocked(h)
    /\ LET name == frame[h].call.project
       IN IF frame[h].call.del /\ frame[h].on_disk
          THEN IF name \in dirs
               THEN /\ fs' = Rmtree(fs, name)
                    /\ dirs' = dirs \ {name}
                    /\ reset' = [reset EXCEPT ![name] = TRUE]
                    /\ frame' = [frame EXCEPT ![h].pc = "ret"]
               ELSE /\ frame' = [frame EXCEPT ![h] = Raised("rmtree")]
                    /\ UNCHANGED <<fs, dirs, reset>>
          ELSE /\ frame' = [frame EXCEPT ![h].pc = "ret"]
               /\ UNCHANGED <<fs, dirs, reset>>
    /\ NoteRace
    /\ UNCHANGED <<_mtime_cache, _lock, schedVars, AUTO_SYNC, vault, proc, calls, externals,
                   touched, alarm, extEdited, readPartial, succeeded, ghostSched>>

\* ---------------------------------------------------------- specifications
\* Item ids are interchangeable, and so are the projects when both are
\* registered: the first call of a behaviour names "x", and in SchedSpec "pA".
DocCalls == {c \in AddCalls \cup HistoryCalls : calls = 0 => c.id = "x"}
SchedCalls == {c \in AddCalls : calls = 0 => (c.id = "x" /\ c.project = "pA")}

\* the store: documents and the registry, with regeneration-on-write disabled
\* and no write from outside the store
StoreInit == Init /\ ~AUTO_SYNC
StoreNext ==
    \/ \E h \in Handlers : Validate(h, DocCalls)
    \/ \E h \in Handlers : LoadStat(h)
    \/ \E h \in Handlers : LoadCmp(h)
    \/ \E h \in Handlers : LoadRead(h)
    \/ \E h \in Handlers : LoadStore(h)
    \/ \E h \in Handlers : CLock(h)
    \/ \E h \in Handlers : CWrite(h)
    \/ \E h \in Handlers : CReplace(h)
    \/ \E h \in Handlers : CCache(h)
    \/ \E h \in Handlers : CExcept(h)
    \/ \E h \in Handlers : Return(h)
    \/ \E h \in Handlers : RegCfg(h)
    \/ \E h \in Handlers : RegOpen(h)
    \/ \E h \in Handlers : RegWrite(h)
    \/ \E h \in Handlers : RegCache(h)
    \/ \E h \in Handlers : UnregCfg(h)
    \/ \E h \in Handlers : UnregRm(h)
StoreSpec == StoreInit /\ [][StoreNext]_vars

\* the scheduler: commits to registered projects with regeneration-on-write enabled
SchedInit == Init /\ AUTO_SYNC /\ dirs = Projects
SchedNext ==
    \/ \E h \in Handlers : Validate(h, SchedCalls)
    \/ \E h \in Handlers : LoadStat(h)
    \/ \E h \in Handlers : LoadCmp(h)
    \/ \E h \in Handlers : LoadRead(h)
    \/ \E h \in Handlers : LoadStore(h)
    \/ \E h \in Handlers : CLock(h)
    \/ \E h \in Handlers : CWrite(h)
    \/ \E h \in Handlers : CReplace(h)
    \/ \E h \in Handlers : CCache(h)
    \/ \E h \in Handlers : CExcept(h)
    \/ \E h \in Handlers : QCancel(h)
    \/ \E h \in Handlers : QArm(h)
    \/ \E h \in Handlers : Return(h)
    \/ \E t \in Timers : Fire(t)
    \/ \E t \in Timers : RunSync(t)
    \/ Tick
SchedSpec == SchedInit /\ [][SchedNext]_vars

\* the store with a human writing documents on disk: add_backlog and history
\* calls on registered projects, regeneration-on-write disabled
EditInit == Init /\ ~AUTO_SYNC /\ dirs = Projects
EditNext ==
    \/ \E h \in Handlers : Validate(h, DocCalls)
    \/ \E h \in Handlers : LoadStat(h)
    \/ \E h \in Handlers : LoadCmp(h)
    \/ \E h \in Handlers : LoadRead(h)
    \/ \E h \in Handlers : LoadStore(h)
    \/ \E h \in Handlers : CLock(h)
    \/ \E h \in Handlers : CWrite(h)
    \/ \E h \in Handlers : CReplace(h)
    \/ \E h \in Handlers : CCache(h)
    \/ \E h \in Handlers : CExcept(h)
    \/ \E h \in Handlers : Return(h)
    \/ \E p \in Projects : ExternalEdit(p)
EditSpec == EditInit /\ [][EditNext]_vars

\* loads alone, with a human emptying and deleting documents on disk
\* documents damaged from outside while one handler serves calls
CorruptInit == Init /\ ~AUTO_SYNC /\ dirs = Projects
CorruptNext ==
    \/ Validate("h1", DocCalls)
    \/ LoadStat("h1")
    \/ LoadCmp("h1")
    \/ LoadRead("h1")
    \/ LoadStore("h1")
    \/ CLock("h1")
    \/ CWrite("h1")
    \/ CReplace("h1")
    \/ CCache("h1")
    \/ CExcept("h1")
    \/ Return("h1")
    \/ \E p \in Projects : ExternalCorrupt(p)
CorruptSpec == CorruptInit /\ [][CorruptNext]_vars

LoadInit == Init /\ ~AUTO_SYNC /\ dirs = Projects
LoadNext ==
    \/ \E h \in Handlers : Validate(h, HistoryCalls)
    \/ \E h \in Handlers : LoadStat(h)
    \/ \E h \in Handlers : LoadCmp(h)
    \/ \E h \in Handlers : LoadRead(h)
    \/ \E h \in Handlers : LoadStore(h)
    \/ \E h \in Handlers : Return(h)
    \/ \E p \in Projects : ExternalTruncate(p)
    \/ \E p \in Projects : ExternalRemove(p)
LoadSpec == LoadInit /\ [][LoadNext]_vars

\* concurrent worksync_history calls that append entries to one project
HistCalls == [tool : {"history_add"}, project : {"pA"}, summary : {"a", "b"}]
HistInit == Init /\ ~AUTO_SYNC /\ dirs = Projects
HistNext ==
    \/ \E h \in Handlers : Validate(h, HistCalls)
    \/ \E h \in Handlers : LoadStat(h)
    \/ \E h \in Handlers : LoadCmp(h)
    \/ \E h \in Handlers : LoadRead(h)
    \/ \E h \in Handlers : LoadStore(h)
    \/ \E h \in Handlers : CLock(h)
    \/ \E h \in Handlers : CWrite(h)
    \/ \E h \in Handlers : CReplace(h)
    \/ \E h \in Handlers : CCache(h)
    \/ \E h \in Handlers : CExcept(h)
    \/ \E h \in Handlers : Return(h)
HistSpec == HistInit /\ [][HistNext]_vars

\* the mutation tools, one call after the other, on a registered project
\* whose document is one of SampleDocs
SprintIds == {"sp1", "sp2"}
StoryIds == {"ST1", "ST2"}
ToolCalls ==
    [tool : {"add_backlog"}, project : {"pA"}, id : ItemIds, summary : {"s2"},
     status : {"todo", "bogus"}]
    \cup [tool : {"update_backlog"}, project : {"pA"}, id : ItemIds,
           summary : {None, "s2"}, status : {None, "done", "bogus"}]
    \cup [tool : {"remove_backlog"}, project : {"pA"}, id : ItemIds]
    \cup [tool : {"create_sprint"}, project : {"pA"}, id : SprintIds, title : {"t2"},
           status : {"planned", "bogus"}]
    \cup [tool : {"update_sprint"}, project : {"pA"}, id : SprintIds,
           title : {None, "t2"}, status : {None, "active", "bogus"}]
    \cup [tool : {"add_story"}, project : {"pA"}, sprint_id : SprintIds, story_id : StoryIds,
           notes : {"", "n"}, status : {"planned", "bogus"}]
    \cup [tool : {"update_story"}, project : {"pA"}, sprint_id : SprintIds, story_id : StoryIds,
           notes : {None, "n"}, status : {None, "done", "bogus"}]
    \cup [tool : {"done"}, project : {"pA"}, sprint_id : {None} \cup SprintIds,
           story_id : StoryIds, notes : {"", "n"}]
    \cup [tool : {"history_add"}, project : {"pA"}, summary : {"", "h"}]
ToolInit ==
    /\ \E d \in SampleDocs : InitState({"pA"}, [p \in Projects |-> d])
    /\ AUTO_SYNC
ToolNext ==
    \/ Validate("h1", ToolCalls)
    \/ \E h \in Handlers : LoadStat(h)
    \/ \E h \in Handlers : LoadCmp(h)
    \/ \E h \in Handlers : LoadRead(h)
    \/ \E h \in Handlers : LoadStore(h)
    \/ \E h \in Handlers : CLock(h)
    \/ \E h \in Handlers : CWrite(h)
    \/ \E h \in Handlers : CReplace(h)
    \/ \E h \in Handlers : CCache(h)
    \/ \E h \in Handlers : CExcept(h)
    \/ \E h \in Handlers : QCancel(h)
    \/ \E h \in Handlers : QArm(h)
    \/ \E h \in Handlers : Return(h)
ToolSpec == ToolInit /\ [][ToolNext]_vars

\* regeneration: one handler commits backlog changes and asks for
\* regenerations, the timers run sync.py, documents are emptied, removed or
\* damaged from outside
VaultCalls ==
    [tool : {"add_backlog"}, project : {"pA"}, id : {"y"}, summary : {"s"}, status : {"todo"}]
    \cup [tool : {"remove_backlog"}, project : {"pA"}, id : {"x"}]
VaultInit == InitState(Projects, [p \in Projects |-> SampleDoc]) /\ AUTO_SYNC
VaultNext ==
    \/ Validate("h1", VaultCalls)
    \/ SyncCall("h1")
    \/ HSyncLoad("h1")
    \/ HSyncRun("h1")
    \/ LoadStat("h1")
    \/ LoadCmp("h1")
    \/ LoadRead("h1")
    \/ LoadStore("h1")
    \/ CLock("h1")
    \/ CWrite("h1")
    \/ CReplace("h1")
    \/ CCache("h1")
    \/ CExcept("h1")
    \/ QCancel("h1")
    \/ QArm("h1")
    \/ Return("h1")
    \/ \E t \in Timers : Fire(t)
    \/ \E t \in Timers : RunSync(t)
    \/ Tick
    \/ \E p \in Projects : ExternalTruncate(p)
    \/ \E p \in Projects : ExternalRemove(p)
    \/ \E p \in Projects : ExternalCorrupt(p)
VaultSpec == VaultInit /\ [][VaultNext]_vars

\* the scheduler under fair scheduling: a handler that can take a step takes
\* it, a timer thread that can run runs, and time passes
SchedFairSpec ==
    /\ SchedSpec
    /\ \A h \in Handlers :
        /\ WF_vars(LoadStat(h)) /\ WF_vars(LoadCmp(h)) /\ WF_vars(LoadRead(h))
        /\ WF_vars(LoadStore(h)) /\ WF_vars(CLock(h)) /\ WF_vars(CWrite(h))
        /\ WF_vars(CReplace(h)) /\ WF_vars(CCache(h)) /\ WF_vars(CExcept(h))
        /\ WF_vars(QCancel(h)) /\ WF_vars(QArm(h)) /\ WF_vars(Return(h))
    /\ \A t \in Timers : WF_vars(Fire(t)) /\ WF_vars(RunSync(t))
    /\ WF_vars(Tick)

\* ------------------------------------------------------------- properties
CommitRegion == {"c_write", "c_replace", "c_cache", "c_except"}
ItemsOnDisk(p) ==
    LET d == SetDefault(Parse(fs[_yaml_path(p)].body), "backlog")
        backlog == Get(d, "backlog")
    IN {backlog[i].id : i \in 1 .. Len(backlog)}
SaveFailed(h) ==
    /\ frame[h].pc = "idle"
    /\ frame[h].result.kind = "raised"
    /\ frame[h].result.where = "save"

\* C1: when _save_work_index fails anywhere in its temp-write, re-parse,
\* os.replace sequence, the exception reaches the caller, the target file is
\* what it was before the save, and the save's temporary file is gone.
C1_FailedSaveLeavesTarget ==
    \A h \in Handlers :
        /\ frame[h].pc = "c_except" => ~touched[h]
        /\ SaveFailed(h) => (~touched[h] /\ ~fs[TmpPath(h)].exists)
C1_Witness ==
    \E h \in Handlers :
        /\ SaveFailed(h)
        /\ ~touched[h]
        /\ \E p \in Projects : fs[_yaml_path(p)].exists /\ ~fs[TmpPath(h)].exists

\* C2: tool calls that arrive concurrently are serialized, so once every call
\* has returned, each backlog item a call reported as added is in the document
\* on disk: no successful mutation is lost.
C2_NoLostUpdate ==
    \A p \in Projects :
        ((\A h \in Handlers : frame[h].pc = "idle") /\ ~reset[p] /\ fs[_yaml_path(p)].exists)
        => succeeded[p] \subseteq ItemsOnDisk(p)

\* C3: at most one handler is inside the commit region (temporary write,
\* re-parse, os.replace, cache update) at a time, whether it commits a document
\* or config.yaml, and that handler holds _lock.
C3_OneCommitter ==
    /\ Cardinality({h \in Handlers : frame[h].pc \in CommitRegion}) <= 1
    /\ \A h \in Handlers : frame[h].pc \in CommitRegion => _lock = h
C3_Witness ==
    \E h, g \in Handlers :
        /\ frame[h].pc = "c_replace" /\ frame[h].path = CONFIG_PATH
        /\ frame[g].pc = "c_lock" /\ IsDoc(frame[g].path) /\ Blocked(g)

\* C4: a _load_work_index that runs while a _save_work_index of the same
\* document is in progress never reads a partially written file, and it never
\* waits for _lock: in every state of a load its next statement can run.
C4_LoadSeesWholeDocument ==
    \A h \in Handlers :
        /\ readPartial[h] # "save"
        /\ frame[h].pc \in {"load_stat", "load_cmp", "load_read", "load_store"}
           => ENABLED (LoadStat(h) \/ LoadCmp(h) \/ LoadRead(h) \/ LoadStore(h))
C4_Witness ==
    \E h, g \in Handlers :
        /\ frame[h].pc = "load_store"
        /\ frame[g].pc = "c_cache"
        /\ frame[g].path = _yaml_path(frame[h].call.project)
        /\ _lock = g
        /\ frame[h].data # Parse(fs[frame[g].path].body)
        /\ readPartial[h] = "no"

\* C5: the commits of one project that are notified less than SYNC_DEBOUNCE_SEC apart form a
\* burst, and a burst produces one regeneration: a project never has more
\* regenerations started than bursts.
C5_OneRegenerationPerBurst ==
    \A p \in Projects : regens[p] <= bursts[p]

\* C6: a step of _queue_sync for one project leaves the _sync_timers entry and
\* the pending timer of every other project as they were.
C6_OtherProjectsTimersKept ==
    [][\A h \in Handlers :
         (frame[h].pc \in {"q_cancel", "q_arm"} /\ frame'[h].pc # frame[h].pc)
         => \A q \in Projects \ {frame[h].call.project} :
              /\ _sync_timers'[q] = _sync_timers[q]
              /\ \A t \in Timers :
                   (timer[t].proj = q /\ timer[t].st \in {"created", "armed", "running"})
                   => timer'[t] = timer[t]]_vars
C6_Witness ==
    \E h \in Handlers :
        /\ frame[h].pc = "ret" /\ frame[h].timer # NoTimer
        /\ timer[frame[h].timer].st = "armed" /\ timer[frame[h].timer].rem = SYNC_DEBOUNCE_SEC
        /\ \E q \in Projects \ {frame[h].call.project} :
             /\ _sync_timers[q] # NoTimer
             /\ timer[_sync_timers[q]].st = "armed"
             /\ timer[_sync_timers[q]].proj = q

\* C7: with AUTO_SYNC on, a successful commit of a project is eventually
\* followed by the start of a regeneration of that project.
C7_CommitLeadsToRegeneration ==
    \A p \in Projects : owed[p] ~> ~owed[p]
C7_Witness ==
    \E p \in Projects : regens[p] > 0 /\ ~owed[p] /\ bursts[p] > 0

\* C8: after its commit a handler never waits for the debounce timer or for the
\* regeneration: in _queue_sync and at its return its next statement can run.
C8_ReturnWaitsForNothing ==
    \A h \in Handlers :
        frame[h].pc \in {"q_cancel", "q_arm", "ret"}
        => ENABLED (QCancel(h) \/ QArm(h) \/ Return(h))
C8_Witness ==
    \E h \in Handlers :
        /\ frame[h].pc = "idle" /\ frame[h].result.kind = "ok"
        /\ \E p \in Projects :
             /\ owed[p] /\ regens[p] = 0
             /\ _sync_timers[p] # NoTimer /\ timer[_sync_timers[p]].st = "armed"

\* C9: a regeneration that fails changes no file of the store, no entry of the
\* mtime cache and no result of a handler.
C9_FailedRegenerationChangesNothing ==
    [][\A t \in Timers :
         (timer[t].st = "running" /\ timer'[t].st = "dead" /\ lastRun' = "failed")
         => (fs' = fs /\ _mtime_cache' = _mtime_cache /\ frame' = frame)]_vars
C9_Witness ==
    /\ lastRun = "failed"
    /\ \E p \in Projects : regens[p] > 0 /\ fs[_yaml_path(p)].exists /\ ItemsOnDisk(p) # {}
    /\ \E h \in Handlers : frame[h].pc = "idle" /\ frame[h].result.kind = "ok"

\* C10 as stated: with no write to a document from outside the store, no
\* _load_work_index finds a cached mtime that differs from the mtime on disk.
C10_NeverReported ==
    \A p \in Projects : ~alarm[p]
\* C10: with no write to a document from outside the store, a
\* _load_work_index finds a cached mtime that differs from the mtime on disk
\* only if a load of that project ran between some commit's write and that
\* commit's cache update.
C10_ReportedOnlyAfterOverlap ==
    \A p \in Projects : alarm[p] => raced[p]
C10_Witness ==
    \E h \in Handlers :
        /\ frame[h].pc = "load_read"
        /\ LET p == frame[h].call.project
           IN /\ ~alarm[p] /\ ~raced[p] /\ ~reset[p]
              /\ fs[_yaml_path(p)].exists /\ fs[_yaml_path(p)].mtime > 0
              /\ _mtime_cache[_yaml_path(p)] = frame[h].current_mtime

\* C11: once a document has been written directly to disk, bypassing the
\* store, the document on disk keeps what was written (here the backlog item
\* "ext"; no tool call of EditSpec removes an item): no later save replaces it
\* with a document derived from a load taken before the external write.
C11_ExternalWriteKept ==
    \A p \in Projects :
        (extEdited[p] /\ fs[_yaml_path(p)].exists) => "ext" \in ItemsOnDisk(p)

HistoryOf(f, p) == Get(Parse(f[_yaml_path(p)].body), "history")
IsPrefix(a, b) == Len(a) <= Len(b) /\ SubSeq(b, 1, Len(a)) = a

\* C12: history is append-only: in every step, in any interleaving of mutation
\* tool calls, the history on disk before the step is a prefix of the history
\* on disk after it.
C12_HistoryAppendOnly ==
    [][\A p \in Projects :
         (fs[_yaml_path(p)].exists /\ fs'[_yaml_path(p)].exists)
         => IsPrefix(HistoryOf(fs, p), HistoryOf(fs', p))]_vars

StoryDoneIn(sprint, story_id) ==
    \E k \in 1 .. Len(sprint.stories) :
        sprint.stories[k].id = story_id /\ sprint.stories[k].status = "done"

\* C13: a successful worksync_done changes the document on disk in one step,
\* and that step both sets the story's status to done and appends exactly one
\* history entry, whose summary names the story and whose related_sprints is
\* the one-element list of the owning sprint's id; a worksync_done that
\* returns its result has made that step.
C13_DoneIsOneCommit ==
    /\ [](\A h \in Handlers :
            (frame[h].pc = "ret" /\ frame[h].call.tool = "done" /\ frame[h].result.kind = "ok")
            => touched[h])
    /\ [][\A h \in Handlers :
            LET c == frame[h].call
                path == _yaml_path(c.project)
            IN (c.tool = "done" /\ fs'[path] # fs[path])
               => LET before == HistoryOf(fs, c.project)
                      after == HistoryOf(fs', c.project)
                      sprints == Get(Parse(fs'[path].body), "sprints")
                  IN /\ Len(after) = Len(before) + 1
                     /\ IsPrefix(before, after)
                     /\ after[Len(after)].summary[2] = c.story_id
                     /\ \E i \in 1 .. Len(sprints) :
                          /\ StoryDoneIn(sprints[i], c.story_id)
                          /\ after[Len(after)].related_sprints = <<sprints[i].id>>]_vars
C13_Witness ==
    \E h \in Handlers :
        /\ frame[h].pc = "ret" /\ frame[h].call.tool = "done" /\ frame[h].result.kind = "ok"
        /\ touched[h]
        /\ \E i \in 1 .. Len(Get(Parse(fs[_yaml_path("pA")].body), "sprints")) :
             StoryDoneIn(Get(Parse(fs[_yaml_path("pA")].body), "sprints")[i], frame[h].call.story_id)
        /\ Len(HistoryOf(fs, "pA")) = 2

\* the enumerated statuses of the entity a tool creates or updates
ValidFor(tool) ==
    CASE tool \in {"add_backlog", "update_backlog"} -> BacklogStatuses
      [] tool \in {"create_sprint", "update_sprint"} -> SprintStatuses
      [] tool \in {"add_story", "update_story"} -> StoryStatuses
InvalidStatusCall(c) ==
    /\ c.tool \in {"add_backlog", "update_backlog", "create_sprint", "update_sprint",
                   "add_story", "update_story"}
    /\ c.status # None
    /\ c.status \notin ValidFor(c.tool)
BeforeSave == {"load_stat", "load_cmp", "load_read", "load_store", "ret"}

\* C14: a create or update of a sprint, story or backlog item whose status is
\* outside the entity's enumerated set returns an error, never reaches the
\* save, changes no file and no timer in any of its steps, also when the call
\* supplies other, valid fields.
C14_InvalidStatusRejected ==
    /\ [](\A h \in Handlers :
            InvalidStatusCall(frame[h].call)
            => /\ frame[h].pc \in BeforeSave
               /\ ~touched[h]
               /\ frame[h].timer = NoTimer
               /\ frame[h].pc = "ret" => frame[h].result.kind = "error")
    /\ [][\A h \in Handlers :
            InvalidStatusCall(frame[h].call)
            => (fs' = fs /\ timer' = timer /\ _sync_timers' = _sync_timers)]_vars
C14_Witness ==
    \E h \in Handlers :
        /\ frame[h].pc = "ret"
        /\ frame[h].call.tool = "update_backlog"
        /\ frame[h].call.status = "bogus" /\ frame[h].call.summary = "s2"
        /\ IdExists(Get(Parse(fs[_yaml_path("pA")].body), "backlog"), frame[h].call.id)
        /\ frame[h].result = Err("invalid", "bogus")

HasId(seq, id) == \E i \in 1 .. Len(seq) : seq[i].id = id
\* a create whose id is taken in document d: a backlog item or a sprint of the
\* document, a story of the target sprint
ConflictCall(c, d) ==
    \/ c.tool = "add_backlog" /\ c.status \in BacklogStatuses /\ HasId(Get(d, "backlog"), c.id)
    \/ c.tool = "create_sprint" /\ c.status \in SprintStatuses /\ HasId(Get(d, "sprints"), c.id)
    \/ /\ c.tool = "add_story" /\ c.status \in StoryStatuses
       /\ \E i \in 1 .. Len(Get(d, "sprints")) :
            /\ Get(d, "sprints")[i].id = c.sprint_id
            /\ \A j \in 1 .. (i - 1) : Get(d, "sprints")[j].id # c.sprint_id
            /\ HasId(Get(d, "sprints")[i].stories, c.story_id)
CreatedId(c) == IF c.tool = "add_story" THEN c.story_id ELSE c.id
DocOnDisk(p) == Parse(fs[_yaml_path(p)].body)

\* C15: creating a sprint or a backlog item whose id exists in the loaded
\* document, or a story whose id exists among the target sprint's stories,
\* returns a conflict error naming the id; the call goes from its load to its
\* return without a save, and has changed no file and armed no timer.
C15_DuplicateIdRejected ==
    /\ [](\A h \in Handlers :
            (frame[h].pc = "ret" /\ frame[h].result.kind = "error" /\ frame[h].result.where = "conflict")
            => (~touched[h] /\ ~fs[TmpPath(h)].exists /\ frame[h].timer = NoTimer))
    /\ [][\A h \in Handlers :
            (/\ frame[h].pc = "load_store"
             /\ frame'[h] # frame[h]
             /\ ConflictCall(frame[h].call, frame[h].data))
            => /\ frame'[h].pc = "ret"
               /\ frame'[h].result = Err("conflict", CreatedId(frame[h].call))
               /\ fs' = fs]_vars
C15_Witness ==
    \E h \in Handlers :
        /\ frame[h].pc = "ret"
        /\ frame[h].call.tool = "add_story"
        /\ ConflictCall(frame[h].call, DocOnDisk("pA"))
        /\ frame[h].result = Err("conflict", frame[h].call.story_id)
        /\ calls = 2

KeyOrder(d) == [i \in 1 .. Len(d) |-> d[i][1]]
\* new is old but for the element at position i
SameBut(new, old, i) ==
    /\ Len(new) = Len(old)
    /\ \A j \in 1 .. Len(old) : j # i => new[j] = old[j]
\* new is old but under key k
SameButKey(new, old, k) ==
    /\ KeyOrder(new) = KeyOrder(old)
    /\ \A i \in 1 .. Len(old) : old[i][1] # k => new[i] = old[i]
\* a field after an update: the supplied value, or the old one when omitted
FieldKept(new, old, arg) == IF arg = None THEN new = old ELSE new = arg
FirstWith(seq, id) ==
    CHOOSE i \in 1 .. Len(seq) : seq[i].id = id /\ \A j \in 1 .. (i - 1) : seq[j].id # id
\* new is what an update call c may make of the loaded document old
UpdateFrame(c, old, new) ==
    CASE c.tool = "update_backlog" ->
           LET a == Get(old, "backlog")
               b == Get(new, "backlog")
               i == FirstWith(a, c.id)
           IN /\ SameButKey(new, old, "backlog") /\ SameBut(b, a, i)
              /\ b[i].id = a[i].id
              /\ FieldKept(b[i].status, a[i].status, c.status)
              /\ FieldKept(b[i].summary, a[i].summary, c.summary)
      [] c.tool = "update_sprint" ->
           LET a == Get(old, "sprints")
               b == Get(new, "sprints")
               i == FirstWith(a, c.id)
           IN /\ SameButKey(new, old, "sprints") /\ SameBut(b, a, i)
              /\ b[i].id = a[i].id /\ b[i].stories = a[i].stories
              /\ FieldKept(b[i].status, a[i].status, c.status)
              /\ FieldKept(b[i].title, a[i].title, c.title)
      [] c.tool = "update_story" ->
           LET a == Get(old, "sprints")
               b == Get(new, "sprints")
               i == FirstWith(a, c.sprint_id)
               k == FirstWith(a[i].stories, c.story_id)
           IN /\ SameButKey(new, old, "sprints") /\ SameBut(b, a, i)
              /\ b[i].id = a[i].id /\ b[i].title = a[i].title /\ b[i].status = a[i].status
              /\ SameBut(b[i].stories, a[i].stories, k)
              /\ b[i].stories[k].id = a[i].stories[k].id
              /\ FieldKept(b[i].stories[k].status, a[i].stories[k].status, c.status)
              /\ FieldKept(b[i].stories[k].notes, a[i].stories[k].notes, c.notes)
UpdateTools == {"update_backlog", "update_sprint", "update_story"}

\* C16: an update changes only the fields the caller supplied on the one
\* targeted entity: the document an update hands to the save differs from the
\* loaded one in nothing else (keys and their order, the other entities, the
\* number and order of sprints, stories and backlog items, the history), and
\* the committed file holds that document.
C16_UpdateChangesOnlySupplied ==
    /\ [](\A h \in Handlers :
            (frame[h].call.tool \in UpdateTools /\ frame[h].pc = "c_cache")
            => DocOnDisk(frame[h].call.project) = frame[h].data)
    /\ [][\A h \in Handlers :
            (/\ frame[h].call.tool \in UpdateTools
             /\ frame[h].pc = "load_store"
             /\ frame'[h].pc = "c_lock")
            => UpdateFrame(frame[h].call, frame[h].data, frame'[h].data)]_vars
C16_Witness ==
    \E h \in Handlers :
        /\ frame[h].pc = "c_cache"
        /\ frame[h].call.tool = "update_story"
        /\ frame[h].call.status = "done" /\ frame[h].call.notes = None
        /\ DocOnDisk("pA") = frame[h].data
        /\ Len(Get(frame[h].data, "sprints")) = 2
        /\ Len(Get(frame[h].data, "backlog")) = 1

MutationTools ==
    {"add_backlog", "update_backlog", "remove_backlog", "create_sprint",
     "update_sprint", "add_story", "update_story", "done", "history_add"}

\* C17: every mutation tool call ends by returning an entity or a structured
\* error object, never in a raised exception: no step of a mutation call
\* leaves the tool function with an exception.
C17_NeverRaises ==
    [][\A h \in Handlers :
        frame[h].call.tool \in MutationTools => frame'[h].result.kind # "raised"]_vars

\* the stories of the first sprint of d with the id; none when there is none
StoriesOf(d, sprint_id) ==
    LET sprints == Get(d, "sprints")
    IN IF HasId(sprints, sprint_id) THEN sprints[FirstWith(sprints, sprint_id)].stories ELSE <<>>
\* a call whose target (backlog item, sprint, story) is not in document d
MissingCall(c, d) ==
    \/ c.tool \in {"update_backlog", "remove_backlog"} /\ ~HasId(Get(d, "backlog"), c.id)
    \/ c.tool = "update_sprint" /\ ~HasId(Get(d, "sprints"), c.id)
    \/ c.tool = "add_story" /\ c.status \in StoryStatuses /\ ~HasId(Get(d, "sprints"), c.sprint_id)
    \/ c.tool = "update_story" /\ ~HasId(StoriesOf(d, c.sprint_id), c.story_id)
    \/ /\ c.tool = "done"
       /\ \A i \in 1 .. Len(Get(d, "sprints")) :
            \/ c.sprint_id \notin {None, "", Get(d, "sprints")[i].id}
            \/ ~HasId(Get(d, "sprints")[i].stories, c.story_id)
\* the entity the error of such a call names
MissingName(c, d) ==
    CASE c.tool \in {"update_backlog", "remove_backlog", "update_sprint"} -> c.id
      [] c.tool = "add_story" -> c.sprint_id
      [] c.tool = "update_story" ->
           IF HasId(Get(d, "sprints"), c.sprint_id) THEN c.story_id ELSE c.sprint_id
      [] c.tool = "done" -> c.story_id
NotFound(r) == r.kind = "error" /\ r.where = "not_found"

\* C18: a mutation whose target sprint, story or backlog item does not exist
\* returns an error naming the missing entity, saves nothing (no file changes,
\* no temporary file is left), arms no timer, and the handler can take its
\* next call afterwards.
C18_MissingEntityRejected ==
    /\ [](\A h \in Handlers :
            /\ (frame[h].pc = "ret" /\ NotFound(frame[h].result))
               => (~touched[h] /\ ~fs[TmpPath(h)].exists /\ frame[h].timer = NoTimer)
            /\ (frame[h].pc = "idle" /\ NotFound(frame[h].result) /\ calls < MaxCalls)
               => ENABLED Validate(h, ToolCalls))
    /\ [][\A h \in Handlers :
            (/\ frame[h].pc = "load_store"
             /\ frame'[h] # frame[h]
             /\ MissingCall(frame[h].call, frame[h].data))
            => /\ frame'[h].pc = "ret"
               /\ frame'[h].result = Err("not_found", MissingName(frame[h].call, frame[h].data))
               /\ fs' = fs
               /\ timer' = timer
               /\ _sync_timers' = _sync_timers]_vars
C18_Witness ==
    \E h \in Handlers :
        /\ frame[h].pc = "idle"
        /\ frame[h].result = Err("not_found", "ST2")
        /\ calls = 1
        /\ DocOnDisk("pA") = SampleDoc
        /\ \A p \in Projects : _sync_timers[p] = NoTimer
        /\ ENABLED Validate(h, ToolCalls)

\* C19: saving a document D with _save_work_index and then loading it with
\* _load_work_index returns D, with the same top-level key order and the same
\* order of every sequence: the text a save is about to write parses to D, the
\* file a save has committed parses to D, and a load returns what the file
\* parses to.
C19_SaveLoadRoundTrip ==
    /\ [](\A h \in Handlers :
            /\ (frame[h].pc \in CommitRegion /\ IsDoc(frame[h].path))
               => (frame[h].content.hdr /\ Parse(frame[h].content) = frame[h].data)
            /\ (frame[h].pc = "c_cache" /\ IsDoc(frame[h].path))
               => /\ DocOnDisk(frame[h].call.project) = frame[h].data
                  /\ KeyOrder(DocOnDisk(frame[h].call.project)) = KeyOrder(frame[h].data))
    /\ [][\A h \in Handlers :
            (frame[h].pc = "load_read" /\ frame'[h].pc = "load_store")
            => frame'[h].data = DocOnDisk(frame[h].call.project)]_vars
\* the second call has loaded the document the first call saved: three keys
\* with "history" first, two backlog items in the order they were added
C19_Witness ==
    \E h \in Handlers :
        /\ frame[h].pc = "load_store"
        /\ calls = 2
        /\ fs[_yaml_path("pA")].mtime > 0
        /\ frame[h].data = DocOnDisk("pA")
        /\ KeyOrder(frame[h].data) = <<"history", "sprints", "backlog">>
        /\ Len(Get(frame[h].data, "backlog")) = 2
        /\ Get(frame[h].data, "backlog")[1].id = "x"

\* C20: _load_work_index fails with a not-found error and leaves the mtime
\* cache unchanged when the document file is absent; when the file exists but
\* is empty it returns the empty structure (no sprints, no backlog, no
\* history), not an error, and the call that asked for it ends normally.
C20_LoadAbsentOrEmpty ==
    [][\A h \in Handlers :
        LET path == _yaml_path(frame[h].call.project)
        IN /\ (/\ frame[h].pc \in {"load_stat", "load_read"}
               /\ frame'[h] # frame[h]
               /\ ~fs[path].exists)
              => (frame'[h] = Raised("load") /\ _mtime_cache' = _mtime_cache)
           /\ (/\ frame[h].pc = "load_read"
               /\ frame'[h] # frame[h]
               /\ fs[path].exists /\ fs[path].body.text = <<>>)
              => /\ frame'[h].pc = "load_store"
                 /\ frame'[h].data = EmptyData
                 /\ \A k \in {"sprints", "backlog", "history"} : Get(frame'[h].data, k) = <<>>
           /\ (/\ frame[h].pc = "load_store"
               /\ frame'[h] # frame[h]
               /\ frame[h].data = EmptyData)
              => (frame'[h].pc = "ret" /\ frame'[h].result.kind = "ok")]_vars
\* one load has failed on a removed document and left no cache entry, another
\* has read an emptied document
C20_Witness ==
    /\ frame["h1"].pc = "idle"
    /\ frame["h1"].result.kind = "raised" /\ frame["h1"].result.where = "load"
    /\ ~fs[_yaml_path("pA")].exists
    /\ _mtime_cache[_yaml_path("pA")] = -1
    /\ frame["h2"].pc = "load_store"
    /\ frame["h2"].data = EmptyData
    /\ fs[_yaml_path("pB")].exists /\ fs[_yaml_path("pB")].body = EmptyBody

IsDocumentText(text) == WellFormed(text) /\ IsMapping(yaml_safe_load(text))

\* C21: _load_work_index fails whenever the content on disk is not
\* well-formed, or is well-formed but not a document shape (a top-level list
\* instead of a mapping); on that failure the file and the mtime cache are
\* unchanged.
C21_CorruptLoadFails ==
    [][\A h \in Handlers :
        LET path == _yaml_path(frame[h].call.project)
        IN (/\ frame[h].pc = "load_read"
            /\ frame'[h] # frame[h]
            /\ fs[path].exists
            /\ ~IsDocumentText(fs[path].body.text))
           => /\ frame'[h] = Raised("load")
              /\ fs' = fs
              /\ _mtime_cache' = _mtime_cache]_vars

\* every timer has fired or been cancelled, no sync.py process is running
Quiet ==
    /\ \A t \in Timers : timer[t].st \in {"none", "dead"}
    /\ \A h \in Handlers : frame[h].pc = "idle"
\* the files a regeneration of the document on disk writes
FilesOf(p) ==
    LET ws == Writes(p, DocOnDisk(p)) IN {ws[i] : i \in 1 .. Len(ws)}

\* C22: once every timer has fired and every regeneration run started after the
\* last commit has finished (here: successfully, with no write from outside
\* the store), the derived artifacts of a project reflect only the last
\* committed document: every entity file in the vault is one the document on
\* disk gives rise to.
C22_ArtifactsReflectLastCommit ==
    (Quiet /\ externals = 0 /\ lastRun = "synced")
    => \A f \in vault.files : f \in FilesOf(f[1])

\* an explicit regeneration of project p has just ended with exit code 0
SyncedNow(h) ==
    /\ frame[h].pc = "sync_run"
    /\ frame'[h].pc = "ret"
    /\ frame'[h].result.kind = "ok"

RunStep ==
    \/ \E t \in Timers : timer[t].st = "armed" /\ timer'[t].st = "running"
    \/ \E t \in Timers : timer[t].st = "running" /\ timer'[t].st = "dead"
    \/ \E h \in Handlers : frame[h].pc = "sync_load" /\ frame'[h].pc = "sync_run"
    \/ \E h \in Handlers : frame[h].pc = "sync_run" /\ frame'[h].pc = "ret"

\* C24: a regeneration run, started by a debounce timer or by an explicit
\* request, whether it succeeds, fails or times out, never changes a project's
\* document file, the registry, a project directory or the mtime cache.
C24_RegenerationIsOneWay ==
    [][RunStep => (fs' = fs /\ dirs' = dirs /\ _mtime_cache' = _mtime_cache)]_vars
\* an explicit run has failed after a timer's run had succeeded and written
\* the vault; the document committed before is on disk
C24_Witness ==
    /\ frame["h1"].pc = "ret"
    /\ frame["h1"].call.tool = "sync"
    /\ frame["h1"].result.kind = "error"
    /\ lastRun = "synced"
    /\ vault.files # {}
    /\ fs[_yaml_path("pA")].exists /\ fs[_yaml_path("pA")].mtime > 0
    /\ _mtime_cache[_yaml_path("pA")] = fs[_yaml_path("pA")].mtime

\* C25: a non-zero exit or a timeout of the regeneration process is returned
\* to the caller as an error result when the run was requested through
\* worksync_sync, and is only logged when a debounce timer started the run:
\* no handler's locals or result change, nothing is raised.
C25_FailureSurfacedOnlyWhenExplicit ==
    /\ [](\A h \in Handlers :
            (frame[h].call.tool = "sync" /\ frame[h].pc = "ret"
             /\ frame[h].result.where \in {"sync", "timeout"})
            => frame[h].result.kind = "error")
    /\ [][\A h \in Handlers :
            (frame[h].pc = "sync_run" /\ frame'[h] # frame[h])
            => /\ frame'[h].pc = "ret"
               /\ ExitCode(proc.handler[h]) # 0
                  => frame'[h].result \in {Err("sync", frame[h].call.project),
                                            Err("timeout", frame[h].call.project)}
               /\ frame'[h].result.kind = "ok" => ExitCode(proc.handler[h]) = 0
               /\ lastRun' = lastRun]_vars
    /\ [][\A t \in Timers :
            (timer[t].st = "running" /\ timer'[t].st = "dead")
            => /\ frame' = frame
               /\ (ExitCode(proc.timer[t]) # 0 => lastRun' = "failed")]_vars
\* an explicit run has returned the error of a non-zero exit, and a timer's
\* run has failed and left the handlers alone
C25_Witness ==
    /\ frame["h1"].pc = "ret"
    /\ frame["h1"].result = Err("sync", "pA")
    /\ lastRun = "failed"
    /\ \E t \in Timers : timer[t].st = "dead"

\* C26: the regeneration process exits with code 0 only when the project it
\* was asked to regenerate was regenerated; when the project cannot be
\* regenerated (directory or document missing, document empty) the exit code
\* is non-zero.
C26_ExitZeroOnlyWhenRegenerated ==
    /\ \A h \in Handlers :
         frame[h].pc = "sync_run"
         => (ExitCode(proc.handler[h]) = 0 <=> Regenerated(proc.handler[h]))
    /\ \A t \in Timers :
         timer[t].st = "running"
         => (ExitCode(proc.timer[t]) = 0 <=> Regenerated(proc.timer[t]))

\* ------------------------------------------------- the registry, one caller
\* one handler registers and unregisters projects and appends to documents;
\* project pA starts registered with a sprint, a backlog item and a history entry
RegistryInit == InitState({"pA"}, [p \in Projects |-> SampleDoc]) /\ ~AUTO_SYNC
RegistryNext ==
    \/ Validate("h1", DocCalls)
    \/ LoadStat("h1")
    \/ LoadCmp("h1")
    \/ LoadRead("h1")
    \/ LoadStore("h1")
    \/ CLock("h1")
    \/ CWrite("h1")
    \/ CReplace("h1")
    \/ CCache("h1")
    \/ CExcept("h1")
    \/ Return("h1")
    \/ RegCfg("h1")
    \/ RegOpen("h1")
    \/ RegWrite("h1")
    \/ RegCache("h1")
    \/ UnregCfg("h1")
    \/ UnregRm("h1")
RegistrySpec == RegistryInit /\ [][RegistryNext]_vars

\* the document of project p as a load would read it from f
Content(f, p) == Parse(f[_yaml_path(p)].body)
\* every sprint, backlog item and history entry of old is still in new
Kept(new, old) ==
    \A k \in {"sprints", "backlog", "history"} :
        \A i \in 1 .. Len(Get(old, k)) : \E j \in 1 .. Len(Get(new, k)) : Get(new, k)[j] = Get(old, k)[i]

\* C27: a step takes a sprint, a backlog item or a history entry out of a
\* project document that holds backlog items only when it is the removal step
\* of worksync_unregister_project called with delete_data = true; registering
\* a name whose document is still on disk keeps what the document holds
C27_DiscardOnlyByDeletingUnregister ==
    [][\A p \in Projects :
          (fs[_yaml_path(p)].exists /\ Get(Content(fs, p), "backlog") # <<>>) =>
              \/ fs'[_yaml_path(p)].exists /\ Kept(Content(fs', p), Content(fs, p))
              \/ \E h \in Handlers : /\ frame[h].pc = "unreg_rm"
                                     /\ frame[h].call.project = p
                                     /\ frame[h].call.del]_vars

\* the backlog of project p in the document on disk f
BacklogOf(f, p) == Get(Content(f, p), "backlog")
\* handler h replaces the document of its project in this step
Commits(h, tool) ==
    /\ frame[h].pc = "c_replace"
    /\ frame[h].call.tool = tool
    /\ fs'[_yaml_path(frame[h].call.project)] # fs[_yaml_path(frame[h].call.project)]

\* C28: the commit of a successful worksync_add_backlog makes the backlog on
\* disk one item longer, the items it had staying as they were and in their
\* order, the new item last; when the call returns, the new item is the one
\* its id finds; and the commit of a worksync_remove_backlog of an id takes
\* exactly the item that the id finds out of the backlog on disk, so that
\* removing the id just added gives back the sequence from before the add.
C28_AddThenRemoveRestores ==
    /\ [][\A h \in Handlers :
            Commits(h, "add_backlog") =>
                LET old == BacklogOf(fs, frame[h].call.project)
                    new == BacklogOf(fs', frame[h].call.project)
                IN /\ Len(new) = Len(old) + 1
                   /\ SubSeq(new, 1, Len(old)) = old
                   /\ new[Len(new)].id = frame[h].call.id]_vars
    /\ [](\A h \in Handlers :
            (frame[h].pc = "ret" /\ frame[h].call.tool = "add_backlog" /\ frame[h].result.kind = "ok")
            => LET b == BacklogOf(fs, frame[h].call.project)
               IN /\ b # <<>>
                  /\ b[Len(b)].id = frame[h].call.id
                  /\ \A i \in 1 .. (Len(b) - 1) : b[i].id # frame[h].call.id)
    /\ [][\A h \in Handlers :
            Commits(h, "remove_backlog") =>
                LET old == BacklogOf(fs, frame[h].call.project)
                    new == BacklogOf(fs', frame[h].call.project)
                IN \E k \in 1 .. Len(old) :
                     /\ old[k].id = frame[h].call.id
                     /\ \A j \in 1 .. (k - 1) : old[j].id # frame[h].call.id
                     /\ new = SubSeq(old, 1, k - 1) \o SubSeq(old, k + 1, Len(old))]_vars
\* an item y was added to the backlog <<x>> and the removal of y has returned
C28_Witness ==
    /\ succeeded["pA"] = {"y"}
    /\ frame["h1"].pc = "ret"
    /\ frame["h1"].call.tool = "remove_backlog"
    /\ frame["h1"].call.id = "y"
    /\ frame["h1"].result = Ok("y")
    /\ BacklogOf(fs, "pA") = Get(SampleDoc, "backlog")

\* --------------------------------------------------- reads after mutations
\* one caller after the other: agents add a backlog item or a history entry
\* to project pA, whose document is populated, and read its history and its
\* status, while a human may rewrite the document; regeneration-on-write is
\* enabled. Project pB is not registered.
Agents == {"agent-1", "agent-2"}
Mutations == {"add_backlog", "history_add"}
Reads == {"history", "status"}
ReadCalls ==
    [tool : {"add_backlog"}, project : {"pA"}, id : {"y"}, summary : {"s"},
     status : {"in_progress"}, agent : Agents]
    \cup [tool : {"history_add"}, project : {"pA"}, summary : {"h"}, agent : Agents]
    \cup [tool : {"history"}, project : {"pA"}]
ReadInit == InitState({"pA"}, [p \in Projects |-> SampleDoc]) /\ AUTO_SYNC
ReadNext ==
    \/ Validate("h1", ReadCalls)
    \/ StatusCall("h1")
    \/ LoadStat("h1")
    \/ LoadCmp("h1")
    \/ LoadRead("h1")
    \/ LoadStore("h1")
    \/ CLock("h1")
    \/ CWrite("h1")
    \/ CReplace("h1")
    \/ CCache("h1")
    \/ CExcept("h1")
    \/ QCancel("h1")
    \/ QArm("h1")
    \/ Return("h1")
    \/ ExternalEdit("pA")
ReadSpec == ReadInit /\ [][ReadNext]_vars

\* handler h has reached the return of a successful call of one of the tools
Returning(h, tools) ==
    /\ frame[h].pc = "ret"
    /\ frame[h].call.tool \in tools
    /\ frame[h].result.kind = "ok"
    /\ frame[h].result.id # MissingDocument
\* document d holds what the call c was to add
Visible(c, d) ==
    IF c.tool = "add_backlog"
    THEN \E i \in 1 .. Len(Get(d, "backlog")) :
           LET b == Get(d, "backlog")[i]
           IN b.id = c.id /\ b.summary = c.summary /\ b.status = c.status
    ELSE /\ Get(d, "history") # <<>>
         /\ Get(d, "history")[Len(Get(d, "history"))].summary = <<c.summary>>

\* C29: with no write from outside the store, a mutation that returns success
\* has put its mutated document on disk, whichever agent called it; and a
\* read that begins after it (calls come one after the other) returns that
\* state: worksync_history the history on disk, worksync_status the counts and
\* the in-progress items of a backlog that holds every item whose
\* worksync_add_backlog has returned success.
C29_ReadsSeeReturnedMutation ==
    /\ [](\A h \in Handlers :
            (Returning(h, Mutations) /\ ~extEdited[frame[h].call.project])
            => /\ Content(fs, frame[h].call.project) = frame[h].data
               /\ Visible(frame[h].call, Content(fs, frame[h].call.project)))
    /\ [](\A h \in Handlers :
            (Returning(h, {"history"}) /\ ~extEdited[frame[h].call.project])
            => Returned(frame[h]) = Get(Content(fs, frame[h].call.project), "history"))
    /\ [](\A h \in Handlers :
            (Returning(h, {"status"}) /\ ~extEdited[frame[h].call.project])
            => LET added == succeeded[frame[h].call.project]
                   r == Returned(frame[h])
               IN /\ r.stats.total_backlog = Len(Get(SampleDoc, "backlog")) + Cardinality(added)
                  /\ r.stats.in_progress = Cardinality(added)
                  /\ \A id \in added :
                       \E i \in 1 .. Len(r.in_progress_backlog) : r.in_progress_backlog[i].id = id)
\* item y was added with success, and the status read that followed returns it
C29_Witness ==
    /\ Returning("h1", {"status"})
    /\ calls = 2
    /\ succeeded["pA"] = {"y"}
    /\ ~extEdited["pA"]
    /\ Returned(frame["h1"]).stats.total_backlog = 2
    /\ Returned(frame["h1"]).in_progress_backlog = <<[id |-> "y", summary |-> "s", status |-> "in_progress"]>>

\* C30: no step of a worksync_status or worksync_history list call changes a
\* file or a timer (none is armed, cancelled or replaced); and what such a call
\* returns is a function of the document on disk alone (the history on disk;
\* the backlog's length and its in-progress items), so that two reads with no
\* write between them return the same data.
C30_ReadsChangeNothing ==
    /\ [][\A h \in Handlers :
            (/\ frame'[h] # frame[h]
             /\ frame[h].call.tool \in Reads \/ frame'[h].call.tool \in Reads)
            => /\ fs' = fs
               /\ timer' = timer
               /\ _sync_timers' = _sync_timers]_vars
    /\ [](\A h \in Handlers :
            (Returning(h, Reads) /\ ~extEdited[frame[h].call.project])
            => LET d == Content(fs, frame[h].call.project)
                   r == Returned(frame[h])
               IN IF frame[h].call.tool = "history"
                  THEN r = Get(d, "history")
                  ELSE /\ r.stats.total_backlog = Len(Get(d, "backlog"))
                       /\ r.in_progress_backlog
                            = SelectSeq(Get(d, "backlog"), LAMBDA b : b.status = "in_progress"))
\* a read returns while the timer that an earlier mutation armed is still armed
C30_Witness ==
    /\ Returning("h1", {"history"})
    /\ calls = 2
    /\ _sync_timers["pA"] # NoTimer
    /\ timer[_sync_timers["pA"]].st = "armed"
    /\ Returned(frame["h1"]) = Get(Content(fs, "pA"), "history")
    /\ Len(Returned(frame["h1"])) = 2

\* a handler is inside _queue_sync(p), between the cancel and the new timer
Requeueing(p) == \E h \in Handlers : frame[h].pc = "q_arm" /\ frame[h].call.project = p

\* C31: outside _queue_sync, the timer that _sync_timers records for a project
\* is armed or is running its regeneration; once the run has ended the project
\* has no entry in _sync_timers.
C31_NoEntryAfterRun ==
    \A p \in Projects :
        (_sync_timers[p] # NoTimer /\ ~Requeueing(p))
        => timer[_sync_timers[p]].st \in {"armed", "running"}

\* the timers of project p that are started, not fired and not cancelled
ArmedFor(p) == {t \in Timers : timer[t].proj = p /\ timer[t].st = "armed"}

\* C32: a project has at most one armed timer at any moment, and an armed
\* timer is the one _sync_timers records for its project, also when two
\* commits of the project run _queue_sync at the same time.
C32_OneArmedTimerPerProject ==
    \A p \in Projects :
        /\ Cardinality(ArmedFor(p)) <= 1
        /\ \A t \in ArmedFor(p) : _sync_timers[TimerKey(p)] = t

\* ------------------------------------------ concurrent creates and updates
\* two handlers run the tools that create, update, complete and remove
\* entities of project pA, whose document starts with unique ids;
\* regeneration-on-write is disabled
IdCalls ==
    {c \in ToolCalls :
        \/ c.tool \in {"add_backlog", "create_sprint", "remove_backlog"} /\ c.id \in {"x", "sp1", "sp2"}
             /\ (c.tool # "remove_backlog" => c.status \in {"todo", "planned"})
        \/ c.tool = "add_story" /\ c.sprint_id = "sp1" /\ c.notes = "" /\ c.status = "planned"
        \/ c.tool = "update_backlog" /\ c.id = "x" /\ c.summary = None /\ c.status = "done"
        \/ c.tool = "update_sprint" /\ c.id = "sp1" /\ c.title = "t2" /\ c.status = None
        \/ c.tool = "update_story" /\ c.sprint_id = "sp1" /\ c.story_id = "ST1"
             /\ c.notes = "n" /\ c.status = None
        \/ c.tool = "done" /\ c.sprint_id = None /\ c.story_id = "ST1" /\ c.notes = ""}
IdInit ==
    /\ \E d \in {InitDoc, SampleDoc} : InitState({"pA"}, [p \in Projects |-> d])
    /\ ~AUTO_SYNC
IdNext ==
    \/ \E h \in Handlers : Validate(h, IdCalls)
    \/ \E h \in Handlers : LoadStat(h)
    \/ \E h \in Handlers : LoadCmp(h)
    \/ \E h \in Handlers : LoadRead(h)
    \/ \E h \in Handlers : LoadStore(h)
    \/ \E h \in Handlers : CLock(h)
    \/ \E h \in Handlers : CWrite(h)
    \/ \E h \in Handlers : CReplace(h)
    \/ \E h \in Handlers : CCache(h)
    \/ \E h \in Handlers : CExcept(h)
    \/ \E h \in Handlers : Return(h)
IdSpec == IdInit /\ [][IdNext]_vars

\* no two elements of seq have the same id
UniqueIds(seq) == \A i, j \in 1 .. Len(seq) : seq[i].id = seq[j].id => i = j
UniqueDoc(d) ==
    /\ UniqueIds(Get(d, "sprints"))
    /\ UniqueIds(Get(d, "backlog"))
    /\ \A i \in 1 .. Len(Get(d, "sprints")) : UniqueIds(Get(d, "sprints")[i].stories)
Ids(seq) == [i \in 1 .. Len(seq) |-> seq[i].id]
\* new has the ids of old in their places, but for one id added at the end or
\* one element taken out
IdsKept(old, new) ==
    \/ Ids(new) = Ids(old)
    \/ Len(new) = Len(old) + 1 /\ SubSeq(Ids(new), 1, Len(old)) = Ids(old)
    \/ \E k \in 1 .. Len(old) :
         Ids(new) = SubSeq(Ids(old), 1, k - 1) \o SubSeq(Ids(old), k + 1, Len(old))

\* C33: whatever calls run and however they interleave, a document on disk
\* has no two sprints, no two backlog items and, inside a sprint, no two
\* stories with the same id; and the document a call hands to its save has
\* every sprint, story and backlog item of the loaded one under its old id.
C33_IdsStayUnique ==
    /\ [](\A p \in Projects : fs[_yaml_path(p)].exists => UniqueDoc(Content(fs, p)))
    /\ [][\A h \in Handlers :
            (frame[h].pc = "load_store" /\ frame'[h].pc = "c_lock")
            => LET old == frame[h].data
                   new == frame'[h].data
               IN /\ IdsKept(Get(old, "backlog"), Get(new, "backlog"))
                  /\ IdsKept(Get(old, "sprints"), Get(new, "sprints"))
                  /\ \A i \in 1 .. Len(Get(old, "sprints")) :
                       IdsKept(Get(old, "sprints")[i].stories, Get(new, "sprints")[i].stories)]_vars
\* both handlers created the sprint sp2 from the same loaded document and both
\* returned: the document on disk has it once
C33_Witness ==
    /\ calls = 2
    /\ \A h \in Handlers : frame[h].pc = "idle" /\ frame[h].result = Ok("sp2")
    /\ Ids(Get(Content(fs, "pA"), "sprints")) = <<"sp1", "sp2">>
    /\ raced["pA"]

\* ------------------------------------------------- when a timer is queued
\* one caller after the other, with regeneration-on-write enabled or
\* disabled: accepted and rejected worksync_add_backlog calls, reads,
\* registrations and unregistrations; any commit may fail
QueueCalls ==
    {c \in ToolCalls : c.tool = "add_backlog"}
    \cup [tool : {"history"}, project : {"pA"}]
QueueInit == \E d \in {InitDoc, SampleDoc} : InitState({"pA"}, [p \in Projects |-> d])
QueueNext ==
    \/ Validate("h1", QueueCalls)
    \/ StatusCall("h1")
    \/ LoadStat("h1")
    \/ LoadCmp("h1")
    \/ LoadRead("h1")
    \/ LoadStore("h1")
    \/ CLock("h1")
    \/ CWrite("h1")
    \/ CReplace("h1")
    \/ CCache("h1")
    \/ CExcept("h1")
    \/ QCancel("h1")
    \/ QArm("h1")
    \/ Return("h1")
    \/ RegCfg("h1")
    \/ RegOpen("h1")
    \/ RegWrite("h1")
    \/ RegCache("h1")
    \/ UnregCfg("h1")
    \/ UnregRm("h1")
QueueSpec == QueueInit /\ [][QueueNext]_vars

\* this step starts or cancels a timer, or changes an entry of _sync_timers
ArmsOrResets ==
    \/ _sync_timers' # _sync_timers
    \/ \E t \in Timers : timer'[t].st # timer[t].st /\ "armed" \in {timer[t].st, timer'[t].st}
\* handler h has replaced the file of its commit with the content it saved
Replaced(h) ==
    /\ fs[frame[h].path].exists
    /\ fs[frame[h].path].body = frame[h].content
    /\ ~fs[TmpPath(h)].exists

\* C34: a step arms or resets a timer only when AUTO_SYNC is enabled and it is
\* a step of _queue_sync in a call of a mutation tool or of
\* worksync_register_project whose commit has replaced its file; and a call
\* that returns an error, a read, an unregistration and every call with
\* AUTO_SYNC disabled reach their return without having armed a timer.
C34_QueuedOnlyAfterCommit ==
    /\ [][ArmsOrResets =>
            /\ AUTO_SYNC
            /\ \E h \in Handlers :
                 /\ frame[h].pc \in {"q_cancel", "q_arm"}
                 /\ frame'[h].pc # frame[h].pc
                 /\ frame[h].call.tool \in {"add_backlog", "register"}
                 /\ frame[h].result.kind = "ok"
                 /\ Replaced(h)]_vars
    /\ [](\A h \in Handlers :
            (/\ frame[h].pc = "ret"
             /\ \/ ~AUTO_SYNC
                \/ frame[h].result.kind # "ok"
                \/ frame[h].call.tool \in {"history", "status", "unregister"})
            => frame[h].timer = NoTimer)
\* a registration has committed config.yaml and armed the timer of its project
C34_Witness ==
    /\ AUTO_SYNC
    /\ frame["h1"].pc = "ret"
    /\ frame["h1"].call.tool = "register"
    /\ frame["h1"].timer # NoTimer
    /\ _sync_timers["pB"] = frame["h1"].timer
    /\ timer[frame["h1"].timer].st = "armed"
    /\ "pB" \in Registered(fs)

\* C35: the cached mtime of a document changes only in the last step of a
\* load of its project, or in the step after the replace of a commit of its
\* project, taken by the handler that holds _lock.
C35_CacheChangesAtLoadOrCommit ==
    [][\A p \in Projects :
          _mtime_cache'[_yaml_path(p)] # _mtime_cache[_yaml_path(p)]
          => \E h \in Handlers :
               /\ frame[h].call.project = p
               /\ frame'[h] # frame[h]
               /\ \/ frame[h].pc = "load_store"
                  \/ frame[h].pc = "c_cache" /\ _lock = h /\ frame[h].path = _yaml_path(p)]_vars

\* the store under fair scheduling of its handlers: a handler that can take
\* the next step of its commit takes it (a handler waiting for _lock gets it
\* once the other handler, whose calls are finitely many, leaves it free)
StoreFairSpec ==
    /\ StoreSpec
    /\ \A h \in Handlers :
        /\ WF_vars(CLock(h)) /\ WF_vars(CWrite(h)) /\ WF_vars(CReplace(h))
        /\ WF_vars(CCache(h)) /\ WF_vars(CExcept(h))

\* C36: _lock is held only by a handler that is inside a commit region, so
\* every exit of the region, by success or by a failed write, validation or
\* replace, has released it; a handler that waits for the lock stops waiting,
\* and a handler inside the region leaves it (its save commits or fails).
C36_LockAlwaysReleased ==
    /\ [](\A h \in Handlers : _lock = h => frame[h].pc \in {"c_write", "c_replace", "c_cache", "c_except"})
    /\ \A h \in Handlers :
         (frame[h].pc \in {"c_lock", "c_write", "c_replace", "c_cache", "c_except"})
         ~> (frame[h].pc \notin {"c_lock", "c_write", "c_replace", "c_cache", "c_except"})
\* the save of one handler has failed and the other handler then took the lock
C36_Witness ==
    /\ frame["h1"].pc = "idle"
    /\ frame["h1"].result.kind = "raised" /\ frame["h1"].result.where = "save"
    /\ _lock = "h2"
    /\ frame["h2"].pc = "c_replace"

\* the regeneration processes of project p that have started and not ended:
\* those started by timers and those started by worksync_sync calls
TimerRuns(p) == {t \in Timers : timer[t].st = "running" /\ timer[t].proj = p}
ExplicitRuns(p) == {h \in Handlers : frame[h].pc = "sync_run" /\ frame[h].call.project = p}

\* C37: at most one regeneration of a project is running at any moment,
\* counting the runs started by its debounce timers and the runs started by
\* worksync_sync for it.
C37_NoOverlappingRuns ==
    \A p \in Projects : Cardinality(TimerRuns(p)) + Cardinality(ExplicitRuns(p)) <= 1

\* document d has a story with the id of call c in a sprint the call searches
StoryFound(d, c) ==
    \E i \in 1 .. Len(Get(d, "sprints")) :
        /\ c.sprint_id = None \/ Get(d, "sprints")[i].id = c.sprint_id
        /\ HasId(Get(d, "sprints")[i].stories, c.story_id)

\* C38: a worksync_done whose story exists in the loaded document goes on to
\* its save with one more history entry than it loaded, whether the story was
\* done before or not; and its commit makes the history on disk one entry
\* longer, the earlier entries as they were, with the story done. So k calls
\* on one story add k entries.
C38_EveryDoneAppendsOneEntry ==
    /\ [][\A h \in Handlers :
            (/\ frame[h].pc = "load_store" /\ frame'[h] # frame[h]
             /\ frame[h].call.tool = "done"
             /\ StoryFound(frame[h].data, frame[h].call))
            => /\ frame'[h].pc = "c_lock"
               /\ frame'[h].result = Ok(frame[h].call.story_id)
               /\ Len(Get(frame'[h].data, "history")) = Len(Get(frame[h].data, "history")) + 1]_vars
    /\ [][\A h \in Handlers :
            Commits(h, "done")
            => LET before == Get(Content(fs, frame[h].call.project), "history")
                   after == Get(Content(fs', frame[h].call.project), "history")
               IN /\ Len(after) = Len(before) + 1
                  /\ SubSeq(after, 1, Len(before)) = before
                  /\ \E i \in 1 .. Len(Get(Content(fs', frame[h].call.project), "sprints")) :
                       StoryDoneIn(Get(Content(fs', frame[h].call.project), "sprints")[i],
                                   frame[h].call.story_id)]_vars
\* worksync_done has been called twice on story ST1: two entries were added
C38_Witness ==
    /\ calls = 2
    /\ frame["h1"].pc = "ret" /\ frame["h1"].call.tool = "done" /\ frame["h1"].result = Ok("ST1")
    /\ LET history == Get(Content(fs, "pA"), "history")
       IN /\ Len(history) = Len(Get(SampleDoc, "history")) + 2
          /\ history[Len(history)].summary[2] = "ST1"
          /\ history[Len(history) - 1].summary[2] = "ST1"
          /\ history[Len(history) - 1].summary[1] = "Completed"

\* ------------------------------------------- a story id in two sprints
\* worksync_done calls, one after the other, on a document whose sprints sp1
\* and sp2 both hold a story ST1, sp2 also a story ST2
TwoSprintDoc ==
    << <<"sprints", <<[id |-> "sp1", title |-> "t", status |-> "active",
                       stories |-> <<[id |-> "ST1", status |-> "planned", notes |-> "None"]>>],
                      [id |-> "sp2", title |-> "t", status |-> "planned",
                       stories |-> <<[id |-> "ST2", status |-> "planned", notes |-> "None"],
                                     [id |-> "ST1", status |-> "in_progress", notes |-> "None"]>>]>>>>,
       <<"backlog", <<>>>>,
       <<"history", <<>>>> >>
DoneCalls == {c \in ToolCalls : c.tool = "done"}
DoneInit == InitState({"pA"}, [p \in Projects |-> TwoSprintDoc]) /\ AUTO_SYNC
DoneNext ==
    \/ Validate("h1", DoneCalls)
    \/ LoadStat("h1")
    \/ LoadCmp("h1")
    \/ LoadRead("h1")
    \/ LoadStore("h1")
    \/ CLock("h1")
    \/ CWrite("h1")
    \/ CReplace("h1")
    \/ CCache("h1")
    \/ CExcept("h1")
    \/ QCancel("h1")
    \/ QArm("h1")
    \/ Return("h1")
DoneSpec == DoneInit /\ [][DoneNext]_vars

\* sprint i of sprints is one the call searches and holds its story
Holds(sprints, i, c) ==
    /\ c.sprint_id = None \/ sprints[i].id = c.sprint_id
    /\ HasId(sprints[i].stories, c.story_id)

\* C39: a worksync_done whose story is in a sprint it searches (the sprint
\* named by sprint_id, or every sprint when none is named) marks done the
\* story in the first such sprint in document order, leaves every other
\* sprint and every other story as loaded, and records that sprint's id in
\* the history entry; one whose story is in no sprint it searches returns
\* not-found and saves nothing, wherever else the story may be.
C39_DoneTakesFirstSprint ==
    [][\A h \in Handlers :
         (frame[h].pc = "load_store" /\ frame'[h] # frame[h] /\ frame[h].call.tool = "done")
         => LET c == frame[h].call
                old == Get(frame[h].data, "sprints")
                new == Get(frame'[h].data, "sprints")
                history == Get(frame'[h].data, "history")
            IN IF \E i \in 1 .. Len(old) : Holds(old, i, c)
               THEN \E i \in 1 .. Len(old) :
                      /\ Holds(old, i, c)
                      /\ \A j \in 1 .. (i - 1) : ~Holds(old, j, c)
                      /\ frame'[h].pc = "c_lock"
                      /\ Len(new) = Len(old)
                      /\ \A j \in (1 .. Len(old)) \ {i} : new[j] = old[j]
                      /\ Len(new[i].stories) = Len(old[i].stories)
                      /\ \A k \in 1 .. Len(old[i].stories) :
                           IF k = FirstWith(old[i].stories, c.story_id)
                           THEN new[i].stories[k].id = c.story_id /\ new[i].stories[k].status = "done"
                           ELSE new[i].stories[k] = old[i].stories[k]
                      /\ history[Len(history)].related_sprints = <<old[i].id>>
               ELSE /\ frame'[h].pc = "ret"
                    /\ NotFound(frame'[h].result)
                    /\ frame'[h].data = frame[h].data]_vars
\* worksync_done without a sprint_id has marked ST1 done in sp1 and left the
\* story ST1 of sp2 in progress
C39_Witness ==
    /\ frame["h1"].pc = "ret" /\ frame["h1"].call.tool = "done"
    /\ frame["h1"].call.sprint_id = None /\ frame["h1"].call.story_id = "ST1"
    /\ frame["h1"].result = Ok("ST1")
    /\ calls = 1
    /\ LET sprints == Get(Content(fs, "pA"), "sprints")
           history == Get(Content(fs, "pA"), "history")
       IN /\ sprints[1].stories[1].status = "done"
          /\ sprints[2] = Get(TwoSprintDoc, "sprints")[2]
          /\ history[Len(history)].related_sprints = <<"sp1">>

\* handler h is at the return of a successful call of tool
AtReturnOf(h, tool) ==
    /\ frame[h].pc = "ret"
    /\ frame[h].call.tool = tool
    /\ frame[h].result.kind = "ok"

\* C40: when a worksync_register_project and a worksync_unregister_project of
\* different names have both run to a successful return, config.yaml
\* registers the first name and not the second: neither call's write of the
\* registry has undone the other's.
C40_RegistryKeepsBothChanges ==
    \A h, g \in Handlers :
        (/\ AtReturnOf(h, "register")
         /\ AtReturnOf(g, "unregister")
         /\ frame[h].call.project # frame[g].call.project)
        => /\ frame[h].call.project \in Registered(fs)
           /\ frame[g].call.project \notin Registered(fs)


====
